---- MODULE Spec2Model ----
(***************************************************************************)
(* Admission gate, ingestion endpoint, background pipeline and post store  *)
(* of the Collective Intelligence Network webhook service.                 *)
(*                                                                         *)
(*   agent/state.py      AgentState (the ready/busy gate)                  *)
(*   webhook/routes.py   receive_update, _run_pipeline_in_background       *)
(*   agent/controller.py run_agent_pipeline, _reject                       *)
(*   database.py         init_db, headline_exists, save_post, update_post, *)
(*                       cleanup_stale_processing                          *)
(*   app.py              module startup                                    *)
(*   utils/validation.py validate_payload                                  *)
(*   agent/generator.py  generate_post, _parse_response, _fallback_post    *)
(*   utils/safety.py     build_check_text, run_safety_filter               *)
(*   feed_collector.py   _fingerprint, _is_stale, send_to_webhook          *)
(*                                                                         *)
(* Every Python thread is a process of the model.  A method of AgentState  *)
(* is a sequence of steps of the calling thread: taking self._lock, each   *)
(* read or assignment of the critical section, and leaving the lock.       *)
(***************************************************************************)
EXTENDS Naturals, Integers, Sequences, FiniteSets, TLC

\* ---------------------------------------------------------------- bounds
NumReq   == 2      \* request threads serving POST /webhook/update
MaxPosts == 2      \* rows the posts table may hold (ids handed out)
MaxClock == 1      \* last instant of the wall clock
NumGateThreads == 2 \* threads of the gate-only specification
MaxBoots == 1      \* times the process is started again
MaxRows == 2       \* rows of the table database.py is called on directly

\* ---------------------------------------------------------------- values
\* Python's None, and a value that is present (an optional holds one or the other)
None == <<>>
Some(x) == <<x>>
Val(o) == o[1]

Reqs    == 1..NumReq
PostIds == 1..MaxPosts
\* thread ids: request r runs on thread r, the pipeline of post i on NumReq+i
JobThread(i) == NumReq + i
Threads == 1..(NumReq + MaxPosts)

\* Headlines are strings, modelled as sequences of characters.
Headlines == { <<"A">>, <<"a", " ">>, <<"B">> }

GenTitle == <<"T">>

\* str.lower() on one character
LowerChar(c) == CASE c = "A" -> "a"
                  [] c = "B" -> "b"
                  [] c = "Kill" -> "kill"
                  [] c = "Genocide" -> "genocide"
                  [] OTHER   -> c

Lower(s) == [i \in 1..Len(s) |-> LowerChar(s[i])]

RECURSIVE LStrip(_)
LStrip(s) == IF s # <<>> /\ Head(s) = " " THEN LStrip(Tail(s)) ELSE s

RECURSIVE RStrip(_)
RStrip(s) == IF s # <<>> /\ s[Len(s)] = " "
             THEN RStrip(SubSeq(s, 1, Len(s) - 1)) ELSE s

\* str.strip()
Strip(s) == RStrip(LStrip(s))

\* database._normalise
_normalise(headline) == Strip(Lower(headline))

VARIABLES
    \* AgentState
    _busy, _current_headline, _busy_since, _lock,
    \* the call of an AgentState method each thread is in
    gpc, garg, gret,
    \* what the thread's current AgentState call wrote to the logger
    glog,
    \* wall clock (datetime.now)
    now,
    \* ghost: try_acquire calls that won minus release calls that freed
    holders,
    \* receive_update, per request thread: position, payload headline,
    \* post_id_hint, and the HTTP response returned
    rpc, rhead, rpost, resp,
    \* _run_pipeline_in_background, per post id: position, payload headline,
    \* the draft `generated'
    jpc, jhead, jgen,
    \* the posts table (id -> row) and the new_post events emitted
    posts, emitted,
    \* ghost: try_acquire calls of the endpoint that returned True, and
    \* calls of release()
    acquires, releases,
    \* ghost: the post ids the endpoint has returned in a 202 response
    accepted,
    \* the last call made directly on database.py: operation, arguments,
    \* result
    sop,
    \* how many times the process has been started again
    boots,
    \* ghost: the gate's label at the moment the thread's try_acquire found
    \* the gate busy
    gseen,
    \* WEBHOOK_SECRET of the server; per request thread, the X-Webhook-Token
    \* header and the body of the request being checked
    secret, rtoken, rdata,
    \* feed_collector: the _SEEN cache, the position in send_to_webhook, its
    \* payload and fingerprint, the loop variable, the last HTTP outcome
    _SEEN, hpc, hpayload, fp, attempt, hresp,
    \* ghost: POSTs made by the current call of send_to_webhook, and the
    \* normalised headlines the endpoint has answered with 202 or 200
    hposts, hanswered,
    \* ghost of the gate-only specification: the label and the instant of
    \* the try_acquire that holds the gate
    gheld,
    \* the content of the payload, per request thread and per job
    rcontent, jcontent,
    \* per job: what run_agent_pipeline returned, and what the job's thread
    \* wrote to the logger
    jres, jlog

gateVars == <<_busy, _current_headline, _busy_since, _lock>>
callVars == <<gpc, garg, gret, glog>>
reqVars  == <<rpc, rhead, rpost, resp>>
jobVars  == <<jpc, jhead, jgen>>
inVars   == <<secret, rtoken, rdata>>
harvVars == <<_SEEN, hpc, hpayload, fp, attempt, hresp, hposts, hanswered>>
pipeVars == <<rcontent, jcontent, jres, jlog>>
extVars  == <<accepted, sop, boots, gseen, inVars, harvVars, gheld, pipeVars>>
extNoAccepted == <<sop, boots, gseen, inVars, harvVars, gheld, pipeVars>>
extNoSeen     == <<accepted, sop, boots, inVars, harvVars, gheld, pipeVars>>
extNoHeld     == <<accepted, sop, boots, gseen, inVars, harvVars, pipeVars>>
sysVars  == <<rpc, rhead, rpost, resp, jpc, jhead, jgen, posts, emitted,
              acquires, releases, extVars>>
vars == <<_busy, _current_headline, _busy_since, _lock, gpc, garg, gret,
          glog, now, holders, rpc, rhead, rpost, resp, jpc, jhead, jgen,
          posts, emitted, acquires, releases, accepted, sop, boots, gseen,
          secret, rtoken, rdata, _SEEN, hpc, hpayload, fp, attempt, hresp,
          hposts, hanswered, gheld, rcontent, jcontent, jres, jlog>>

\* ------------------------------------------------------------ AgentState

\* AgentState.__init__
GateInit ==
    /\ _busy = FALSE
    /\ _current_headline = None
    /\ _busy_since = None
    /\ _lock = 0

\* the lock as it would be if `with self._lock' did not exclude
LockAvailable_NoExclusion(t) == TRUE

\* `with self._lock:' can be entered
LockAvailable(t) == _lock = 0

\* a thread begins a call of an AgentState method
GateCall(t, m, h) ==
    /\ gpc[t] = "idle"
    /\ gpc' = [gpc EXCEPT ![t] = m]
    /\ garg' = [garg EXCEPT ![t] = h]
    /\ gret' = [gret EXCEPT ![t] = None]
    /\ glog' = [glog EXCEPT ![t] = None]
    /\ UNCHANGED <<gateVars, now, holders>>

\* try_acquire: with self._lock
TA_Lock(t) ==
    /\ gpc[t] = "try_acquire"
    /\ LockAvailable(t)
    /\ _lock' = t
    /\ gpc' = [gpc EXCEPT ![t] = "ta_check"]
    /\ UNCHANGED <<_busy, _current_headline, _busy_since, garg, gret, now, holders>>
    /\ UNCHANGED glog

\* try_acquire: if self._busy: return False
TA_Check(t) ==
    /\ gpc[t] = "ta_check"
    /\ IF _busy
       THEN /\ gpc' = [gpc EXCEPT ![t] = "ret_try_acquire"]
            /\ gret' = [gret EXCEPT ![t] = FALSE]
            /\ _lock' = 0
            /\ garg' = [garg EXCEPT ![t] = None]
       ELSE /\ gpc' = [gpc EXCEPT ![t] = "ta_busy"]
            /\ UNCHANGED <<gret, _lock, garg>>
    /\ UNCHANGED <<_busy, _current_headline, _busy_since, now, holders>>
    /\ UNCHANGED glog

\* try_acquire: self._busy = True
TA_SetBusy(t) ==
    /\ gpc[t] = "ta_busy"
    /\ _busy' = TRUE
    /\ holders' = holders + 1
    /\ gpc' = [gpc EXCEPT ![t] = "ta_headline"]
    /\ UNCHANGED <<_current_headline, _busy_since, _lock, garg, gret, now>>
    /\ UNCHANGED glog

\* try_acquire: self._current_headline = headline
TA_SetHeadline(t) ==
    /\ gpc[t] = "ta_headline"
    /\ _current_headline' = Some(garg[t])
    /\ gpc' = [gpc EXCEPT ![t] = "ta_since"]
    /\ UNCHANGED <<_busy, _busy_since, _lock, garg, gret, now, holders>>
    /\ UNCHANGED glog

\* try_acquire as it would be if it did not record the timestamp
TA_SetSince_NoTimestamp(t) ==
    /\ gpc[t] = "ta_since"
    /\ _lock' = 0
    /\ garg' = [garg EXCEPT ![t] = None]
    /\ gpc' = [gpc EXCEPT ![t] = "ret_try_acquire"]
    /\ gret' = [gret EXCEPT ![t] = TRUE]
    /\ glog' = [glog EXCEPT ![t] = Some("info: BUSY")]
    /\ UNCHANGED <<_busy, _current_headline, _busy_since, now, holders>>

\* try_acquire: self._busy_since = now; return True (leaves the lock)
TA_SetSince(t) ==
    /\ gpc[t] = "ta_since"
    /\ _busy_since' = Some(now)
    /\ _lock' = 0
    /\ garg' = [garg EXCEPT ![t] = None]
    /\ gpc' = [gpc EXCEPT ![t] = "ret_try_acquire"]
    /\ gret' = [gret EXCEPT ![t] = TRUE]
    /\ glog' = [glog EXCEPT ![t] = Some("info: BUSY")]
    /\ UNCHANGED <<_busy, _current_headline, now, holders>>

\* release: with self._lock
REL_Lock(t) ==
    /\ gpc[t] = "release"
    /\ LockAvailable(t)
    /\ _lock' = t
    /\ gpc' = [gpc EXCEPT ![t] = "rel_check"]
    /\ UNCHANGED <<_busy, _current_headline, _busy_since, garg, gret, now, holders>>
    /\ UNCHANGED glog

\* release: if not self._busy: warn and return
REL_Check(t) ==
    /\ gpc[t] = "rel_check"
    /\ IF ~_busy
       THEN /\ gpc' = [gpc EXCEPT ![t] = "ret_release"]
            /\ glog' = [glog EXCEPT ![t] = Some("warning: release while READY")]
            /\ _lock' = 0
            /\ garg' = [garg EXCEPT ![t] = None]
       ELSE /\ gpc' = [gpc EXCEPT ![t] = "rel_busy"]
            /\ glog' = [glog EXCEPT ![t] = Some("info: READY")]
            /\ UNCHANGED <<_lock, garg>>
    /\ UNCHANGED <<_busy, _current_headline, _busy_since, gret, now, holders>>

\* release: self._busy = False
REL_ClearBusy(t) ==
    /\ gpc[t] = "rel_busy"
    /\ _busy' = FALSE
    /\ holders' = holders - 1
    /\ gpc' = [gpc EXCEPT ![t] = "rel_headline"]
    /\ UNCHANGED <<_current_headline, _busy_since, _lock, garg, gret, now>>
    /\ UNCHANGED glog

\* release as it would be if it forgot to clear the label
REL_ClearHeadline_Forgotten(t) ==
    /\ gpc[t] = "rel_headline"
    /\ gpc' = [gpc EXCEPT ![t] = "rel_since"]
    /\ UNCHANGED <<_busy, _current_headline, _busy_since, _lock, garg, gret, now, holders>>
    /\ UNCHANGED glog

\* release: self._current_headline = None
REL_ClearHeadline(t) ==
    /\ gpc[t] = "rel_headline"
    /\ _current_headline' = None
    /\ gpc' = [gpc EXCEPT ![t] = "rel_since"]
    /\ UNCHANGED <<_busy, _busy_since, _lock, garg, gret, now, holders>>
    /\ UNCHANGED glog

\* release: self._busy_since = None (leaves the lock)
REL_ClearSince(t) ==
    /\ gpc[t] = "rel_since"
    /\ _busy_since' = None
    /\ _lock' = 0
    /\ garg' = [garg EXCEPT ![t] = None]
    /\ gpc' = [gpc EXCEPT ![t] = "ret_release"]
    /\ UNCHANGED glog
    /\ UNCHANGED <<_busy, _current_headline, gret, now, holders>>

\* current_headline(): with self._lock
CH_Lock(t) ==
    /\ gpc[t] = "current_headline"
    /\ LockAvailable(t)
    /\ _lock' = t
    /\ gpc' = [gpc EXCEPT ![t] = "ch_read"]
    /\ UNCHANGED <<_busy, _current_headline, _busy_since, garg, gret, now, holders>>
    /\ UNCHANGED glog

\* current_headline(): return self._current_headline
CH_Read(t) ==
    /\ gpc[t] = "ch_read"
    /\ gret' = [gret EXCEPT ![t] = _current_headline]
    /\ _lock' = 0
    /\ garg' = [garg EXCEPT ![t] = None]
    /\ gpc' = [gpc EXCEPT ![t] = "ret_current_headline"]
    /\ UNCHANGED <<_busy, _current_headline, _busy_since, now, holders>>
    /\ UNCHANGED glog

\* the snapshot status_dict builds
StatusSnapshot ==
    [ready            |-> ~_busy,
     busy             |-> _busy,
     current_headline |-> _current_headline,
     busy_since       |-> _busy_since,
     elapsed_seconds  |-> IF _busy /\ _busy_since # None
                          THEN Some(now - Val(_busy_since)) ELSE None]

\* status_dict as it would be if it read the fields without the lock
SD_Lock_NoLock(t) ==
    /\ gpc[t] = "status_dict"
    /\ gpc' = [gpc EXCEPT ![t] = "sd_read"]
    /\ UNCHANGED <<_busy, _current_headline, _busy_since, _lock, garg, gret,
                   now, holders>>
    /\ UNCHANGED glog

\* status_dict(): with self._lock
SD_Lock(t) ==
    /\ gpc[t] = "status_dict"
    /\ LockAvailable(t)
    /\ _lock' = t
    /\ gpc' = [gpc EXCEPT ![t] = "sd_read"]
    /\ UNCHANGED <<_busy, _current_headline, _busy_since, garg, gret, now, holders>>
    /\ UNCHANGED glog

\* status_dict(): build and return the snapshot
SD_Read(t) ==
    /\ gpc[t] = "sd_read"
    /\ gret' = [gret EXCEPT ![t] = StatusSnapshot]
    /\ _lock' = 0
    /\ garg' = [garg EXCEPT ![t] = None]
    /\ gpc' = [gpc EXCEPT ![t] = "ret_status_dict"]
    /\ UNCHANGED <<_busy, _current_headline, _busy_since, now, holders>>
    /\ UNCHANGED glog

\* one step inside try_acquire
AcquireStep(t) ==
    \/ TA_Lock(t) \/ TA_Check(t) \/ TA_SetBusy(t) \/ TA_SetHeadline(t)
    \/ TA_SetSince(t)

\* one step inside release
ReleaseStep(t) ==
    \/ REL_Lock(t) \/ REL_Check(t) \/ REL_ClearBusy(t)
    \/ REL_ClearHeadline(t) \/ REL_ClearSince(t)

\* one step inside current_headline
HeadlineStep(t) == CH_Lock(t) \/ CH_Read(t)

\* one step inside status_dict
StatusStep(t) == SD_Lock(t) \/ SD_Read(t)

\* datetime.now advances
Tick ==
    /\ now < MaxClock
    /\ now' = now + 1
    /\ UNCHANGED <<gateVars, callVars, holders, sysVars>>

\* ------------------------------------------------------------- database.py

PostStatus == {"processing", "published", "rejected"}

\* columns update_post may set (the keys of its field_map)
UpdatableFields == {"title", "summary", "confidence_score", "status"}

\* headline_exists as it would be if the headline were looked up as given
headline_exists_NotNormalised(tbl, headline) ==
    \E i \in DOMAIN tbl :
        /\ tbl[i].headline_hash = headline
        /\ tbl[i].status \in {"published", "processing"}

\* headline_exists as it would be if only published rows counted
headline_exists_PublishedOnly(tbl, headline) ==
    \E i \in DOMAIN tbl :
        /\ tbl[i].headline_hash = _normalise(headline)
        /\ tbl[i].status = "published"

\* headline_exists as it would be without the status filter
headline_exists_AnyStatus(tbl, headline) ==
    \E i \in DOMAIN tbl : tbl[i].headline_hash = _normalise(headline)

\* headline_exists: SELECT 1 ... WHERE headline_hash = ? AND status IN
\* ('published', 'processing')
headline_exists(tbl, headline) ==
    \E i \in DOMAIN tbl :
        /\ tbl[i].headline_hash = _normalise(headline)
        /\ tbl[i].status \in {"published", "processing"}

\* the row save_post inserts for a post dict (of the columns, those an
\* operation of the service reads or compares)
SavedRow(post) ==
    [id               |-> post.id,
     title            |-> post.title,
     summary          |-> post.summary,
     confidence_score |-> post.confidence_score,
     status           |-> post.status,
     headline_hash    |-> _normalise(post.title)]

\* init_db: CREATE TABLE IF NOT EXISTS; the rows of an existing table stay
init_db(tbl) == tbl

\* save_post as it would be with INSERT OR REPLACE: no id is refused
SaveConflict_Never(tbl, post) == FALSE

\* save_post: INSERT INTO posts; the PRIMARY KEY rejects an id already there
SaveConflict(tbl, post) == post.id \in DOMAIN tbl

save_post(tbl, post) ==
    IF SaveConflict(tbl, post) THEN tbl
    ELSE [i \in DOMAIN tbl \cup {post.id} |->
             IF i = post.id THEN SavedRow(post) ELSE tbl[i]]

\* update_post as it would be if a new title also rewrote headline_hash
update_post_RehashesTitle(tbl, post_id, updates) ==
    LET set_clauses == DOMAIN updates \cap UpdatableFields
    IN  IF set_clauses = {} THEN tbl
        ELSE [i \in DOMAIN tbl |->
                IF i = post_id
                THEN [f \in DOMAIN tbl[i] |->
                         IF f \in set_clauses THEN updates[f]
                         ELSE IF f = "headline_hash" /\ "title" \in set_clauses
                              THEN _normalise(updates.title)
                              ELSE tbl[i][f]]
                ELSE tbl[i]]

\* update_post as it would be if every key of `updates' named a column to
\* set, without the field_map
update_post_AnyKey(tbl, post_id, updates) ==
    LET set_clauses == DOMAIN updates
    IN  IF set_clauses = {} THEN tbl
        ELSE [i \in DOMAIN tbl |->
                IF i = post_id
                THEN [f \in DOMAIN tbl[i] |->
                         IF f \in set_clauses THEN updates[f] ELSE tbl[i][f]]
                ELSE tbl[i]]

\* update_post: UPDATE posts SET <the keys of updates field_map knows>
\* WHERE id = ?
update_post(tbl, post_id, updates) ==
    LET set_clauses == DOMAIN updates \cap UpdatableFields
    IN  IF set_clauses = {} THEN tbl
        ELSE [i \in DOMAIN tbl |->
                IF i = post_id
                THEN [f \in DOMAIN tbl[i] |->
                         IF f \in set_clauses THEN updates[f] ELSE tbl[i][f]]
                ELSE tbl[i]]

\* cleanup_stale_processing(max_age_minutes=10)
DefaultMaxAge == 10

\* cleanup_stale_processing as it would be without the max_age_minutes == 0
\* branch: the age test applies to every call
cleanup_stale_processing_AlwaysByAge(tbl, max_age_minutes, old) ==
    LET hit == {i \in DOMAIN tbl : tbl[i].status = "processing" /\ i \in old}
    IN  [rows  |-> [i \in DOMAIN tbl |->
                      IF i \in hit THEN [tbl[i] EXCEPT !.status = "rejected"]
                      ELSE tbl[i]],
         count |-> Cardinality(hit)]

\* cleanup_stale_processing: UPDATE posts SET status = 'rejected' WHERE
\* status = 'processing' [AND created_at < cutoff]; returns cur.rowcount.
\* `old' is the set of ids whose created_at lies before the cutoff
cleanup_stale_processing(tbl, max_age_minutes, old) ==
    LET hit == {i \in DOMAIN tbl :
                   /\ tbl[i].status = "processing"
                   /\ (max_age_minutes = 0 \/ i \in old)}
    IN  [rows  |-> [i \in DOMAIN tbl |->
                      IF i \in hit THEN [tbl[i] EXCEPT !.status = "rejected"]
                      ELSE tbl[i]],
         count |-> Cardinality(hit)]

\* --------------------------------------------------------- agent/generator.py

\* _parse_response: the draft parsed from the model's answer
ParsedDraft(headline, title) ==
    [title |-> title, summary |-> "generated", confidence_score |-> 50,
     kind |-> "parsed"]

\* _fallback_post: the minimal draft built from the raw payload
_fallback_post(headline) ==
    [title |-> headline, summary |-> "payload content", confidence_score |-> 10,
     kind |-> "fallback"]

\* generate_post: every path returns a draft (parsed, or the fallback after
\* a connection error, a timeout, an unparsable answer or any exception)
generate_post(headline) ==
    {ParsedDraft(headline, GenTitle), _fallback_post(headline)}

\* ------------------------------------------------------ utils/validation.py

\* JSON values as Python sees them: the tag is type(v).__name__
Str(s)   == [t |-> "str", s |-> s]
Num      == [t |-> "int"]
List(l)  == [t |-> "list", l |-> l]
Dict(d)  == [t |-> "dict", d |-> d]

\* REQUIRED_FIELDS, in the order the dict is iterated
REQUIRED_FIELDS ==
    <<[field |-> "domain",    type |-> "str"],
      [field |-> "headline",  type |-> "str"],
      [field |-> "content",   type |-> "str"],
      [field |-> "sources",   type |-> "list"],
      [field |-> "timestamp", type |-> "str"]>>

ALLOWED_DOMAINS ==
    {<<"Technology">>, <<"Politics">>, <<"Economics">>, <<"Health">>,
     <<"Science">>, <<"Environment">>, <<"Energy">>, <<"Space">>,
     <<"Security">>, <<"Education">>, <<"Business">>, <<"General">>}

\* the length caps of validate_payload
MaxHeadlineLen == 500
MaxContentLen == 50000

\* str.replace("Z", "+00:00")
RECURSIVE ReplaceZ(_)
ReplaceZ(s) ==
    IF s = <<>> THEN <<>>
    ELSE IF Head(s) = "Z"
         THEN <<"+", "0", "0", ":", "0", "0">> \o ReplaceZ(Tail(s))
         ELSE <<Head(s)>> \o ReplaceZ(Tail(s))

Digits == {"0", "1", "2", "3", "4", "5", "6", "7", "8", "9"}

DigitValue(c) == CHOOSE n \in 0..9 : <<"0", "1", "2", "3", "4", "5", "6",
                                        "7", "8", "9">>[n + 1] = c

\* the number written by the two digits at s[i], s[i+1]; -1 if not digits
TwoDigits(s, i) ==
    IF s[i] \in Digits /\ s[i + 1] \in Digits
    THEN 10 * DigitValue(s[i]) + DigitValue(s[i + 1])
    ELSE 0 - 1

\* datetime.fromisoformat accepts the text: YYYY-MM-DD, optionally followed
\* by a separator and HH:MM:SS, optionally followed by +HH:MM or -HH:MM
fromisoformat_ok(s) ==
    LET n == Len(s)
        date == /\ n >= 10
                /\ \A i \in {1, 2, 3, 4} : s[i] \in Digits
                /\ s[5] = "-" /\ s[8] = "-"
                /\ TwoDigits(s, 6) \in 1..12
                /\ TwoDigits(s, 9) \in 1..31
        time == /\ n >= 19
                /\ TwoDigits(s, 12) \in 0..23
                /\ s[14] = ":" /\ s[17] = ":"
                /\ TwoDigits(s, 15) \in 0..59
                /\ TwoDigits(s, 18) \in 0..59
        zone == /\ n = 25
                /\ s[20] \in {"+", "-"}
                /\ TwoDigits(s, 21) \in 0..23
                /\ s[23] = ":"
                /\ TwoDigits(s, 24) \in 0..59
    IN  /\ date
        /\ n = 10 \/ (time /\ (n = 19 \/ zone))

Valid == [ok |-> TRUE, msg |-> <<>>]
Invalid(msg) == [ok |-> FALSE, msg |-> msg]

\* the first loop of validate_payload from field number k on: the first
\* required field that is missing or of the wrong type
RECURSIVE TypeError(_, _)
TypeError(d, k) ==
    IF k > Len(REQUIRED_FIELDS) THEN Valid
    ELSE LET f == REQUIRED_FIELDS[k]
         IN  IF f.field \notin DOMAIN d
             THEN Invalid(<<"Missing required field: '", f.field, "'.">>)
             ELSE IF d[f.field].t # f.type
             THEN Invalid(<<"Field '", f.field, "' must be of type ", f.type,
                            ", got ", d[f.field].t, ".">>)
             ELSE TypeError(d, k + 1)

\* the second loop as it would be if it found nothing to refuse
EmptyError_Skipped(d, fields) == Valid

\* the second loop: the first text field that is empty once stripped
RECURSIVE EmptyError(_, _)
EmptyError(d, fields) ==
    IF fields = <<>> THEN Valid
    ELSE IF Strip(d[Head(fields)].s) = <<>>
         THEN Invalid(<<"Field '", Head(fields), "' must not be empty.">>)
         ELSE EmptyError(d, Tail(fields))

validate_payload(data) ==
    IF data.t # "dict" THEN Invalid(<<"Payload must be a JSON object.">>)
    ELSE LET d == data.d IN
    IF ~TypeError(d, 1).ok THEN TypeError(d, 1)
    ELSE IF ~EmptyError(d, <<"domain", "headline", "content", "timestamp">>).ok
    THEN EmptyError(d, <<"domain", "headline", "content", "timestamp">>)
    ELSE IF d.sources.l = <<>>
    THEN Invalid(<<"Field '", "sources", "' must contain at least one entry.">>)
    ELSE IF \E i \in DOMAIN d.sources.l : d.sources.l[i].t # "str"
    THEN Invalid(<<"All entries in '", "sources", "' must be strings.">>)
    ELSE IF ~fromisoformat_ok(ReplaceZ(d.timestamp.s))
    THEN Invalid(<<"Field '", "timestamp",
                  "' must be a valid ISO-8601 datetime string.">>)
    ELSE IF Len(d.headline.s) > MaxHeadlineLen
    THEN Invalid(<<"Field '", "headline", "' must not exceed 500 characters.">>)
    ELSE IF Len(d.content.s) > MaxContentLen
    THEN Invalid(<<"Field '", "content", "' must not exceed 50,000 characters.">>)
    ELSE Valid

\* ------------------------------------------------------- webhook/routes.py

\* the text "unknown" (texts are sequences of symbols, as the headlines are)
Unknown == <<"unknown">>

\* WEBHOOK_SECRET as configured in the server's environment
ServerSecret == "s3cret"

\* no response returned yet
NoResponse == [code |-> 0, status |-> "none"]

\* no call made on database.py yet
NoCall == [op |-> "none"]

SysInit ==
    /\ rpc = [r \in Reqs |-> "idle"]
    /\ rhead = [r \in Reqs |-> None]
    /\ rpost = [r \in Reqs |-> None]
    /\ resp = [r \in Reqs |-> NoResponse]
    /\ jpc = [i \in PostIds |-> "none"]
    /\ jhead = [i \in PostIds |-> None]
    /\ jgen = [i \in PostIds |-> None]
    /\ posts = <<>>
    /\ emitted = {}
    /\ acquires = 0
    /\ releases = 0
    /\ accepted = {}
    /\ sop = NoCall
    /\ boots = 0
    /\ gseen = [t \in Threads |-> None]
    /\ rtoken = [r \in Reqs |-> ""]
    /\ rdata = [r \in Reqs |-> None]
    /\ _SEEN = {}
    /\ hpc = "idle"
    /\ hpayload = None
    /\ fp = None
    /\ attempt = 0
    /\ hresp = 0
    /\ hposts = 0
    /\ hanswered = {}
    /\ gheld = None
    /\ rcontent = [r \in Reqs |-> None]
    /\ jcontent = [i \in PostIds |-> None]
    /\ jres = [i \in PostIds |-> None]
    /\ jlog = [i \in PostIds |-> None]

\* requests between arrival and response
InFlight == {r \in Reqs : rpc[r] \notin {"idle", "done"}}

\* str(uuid.uuid4()): an id no row has
FreshId == CHOOSE i \in PostIds \ DOMAIN posts :
               \A j \in PostIds \ DOMAIN posts : i <= j

\* the placeholder dict of receive_update
Placeholder(id, headline) ==
    [id |-> id, title |-> headline, summary |-> "", confidence_score |-> 0,
     status |-> "processing"]

\* a request arrives with a valid token and a valid payload (steps 1-3 pass)
RU_Start(r, h) ==
    /\ rpc[r] \in {"idle", "done"}
    /\ Cardinality(DOMAIN posts) + Cardinality(InFlight) < MaxPosts
    /\ rpc' = [rpc EXCEPT ![r] = "dup"]
    /\ rhead' = [rhead EXCEPT ![r] = h]
    /\ rpost' = [rpost EXCEPT ![r] = None]
    /\ resp' = [resp EXCEPT ![r] = NoResponse]
    /\ UNCHANGED <<gateVars, callVars, now, holders, jobVars, posts, emitted,
                   acquires, releases>>

\* step 4: duplicate detection, then the call of try_acquire
RU_DupCheck(r) ==
    /\ rpc[r] = "dup"
    /\ IF headline_exists(posts, rhead[r])
       THEN /\ rpc' = [rpc EXCEPT ![r] = "done"]
            /\ resp' = [resp EXCEPT ![r] =
                  [code |-> 200, status |-> "duplicate", post_id |-> None]]
            /\ UNCHANGED <<gateVars, callVars, now, holders>>
       ELSE /\ rpc' = [rpc EXCEPT ![r] = "acquire"]
            /\ GateCall(r, "try_acquire", rhead[r])
            /\ UNCHANGED resp
    /\ UNCHANGED <<rhead, rpost, jobVars, posts, emitted, acquires, releases>>

\* step 5 as it would be if the endpoint went on whatever try_acquire said
RU_AfterAcquire_IgnoresResult(r) ==
    /\ rpc[r] = "acquire"
    /\ gpc[r] = "ret_try_acquire"
    /\ rpc' = [rpc EXCEPT ![r] = "save"]
    /\ gpc' = [gpc EXCEPT ![r] = "idle"]
    /\ acquires' = acquires + 1
    /\ gret' = [gret EXCEPT ![r] = None]
    /\ glog' = [glog EXCEPT ![r] = None]
    /\ UNCHANGED <<gateVars, garg, now, holders, rhead, rpost, resp, jobVars,
                   posts, emitted, releases>>

\* step 5: the value try_acquire returned; on False, ask current_headline()
RU_AfterAcquire(r) ==
    /\ rpc[r] = "acquire"
    /\ gpc[r] = "ret_try_acquire"
    /\ IF gret[r]
       THEN /\ rpc' = [rpc EXCEPT ![r] = "save"]
            /\ gpc' = [gpc EXCEPT ![r] = "idle"]
            /\ acquires' = acquires + 1
       ELSE /\ rpc' = [rpc EXCEPT ![r] = "busy"]
            /\ gpc' = [gpc EXCEPT ![r] = "current_headline"]
            /\ UNCHANGED acquires
    /\ gret' = [gret EXCEPT ![r] = None]
    /\ glog' = [glog EXCEPT ![r] = None]
    /\ UNCHANGED <<gateVars, garg, now, holders, rhead, rpost, resp, jobVars,
                   posts, emitted, releases>>

\* step 5 as it would be if the busy response named the request's own
\* headline
RU_Busy_OwnHeadline(r) ==
    /\ rpc[r] = "busy"
    /\ gpc[r] = "ret_current_headline"
    /\ resp' = [resp EXCEPT ![r] =
          [code |-> 503, status |-> "busy", current_headline |-> rhead[r]]]
    /\ rpc' = [rpc EXCEPT ![r] = "done"]
    /\ gpc' = [gpc EXCEPT ![r] = "idle"]
    /\ gret' = [gret EXCEPT ![r] = None]
    /\ glog' = [glog EXCEPT ![r] = None]
    /\ UNCHANGED <<gateVars, garg, now, holders, rhead, rpost, jobVars, posts,
                   emitted, acquires, releases>>

\* step 5 as it would be if the placeholder were registered before the
\* ready-check, so that the busy branch leaves a row behind
RU_Busy_WritesPlaceholder(r) ==
    /\ rpc[r] = "busy"
    /\ gpc[r] = "ret_current_headline"
    /\ resp' = [resp EXCEPT ![r] =
          [code |-> 503, status |-> "busy",
           current_headline |-> IF gret[r] = None THEN Unknown
                                ELSE Val(gret[r])]]
    /\ posts' = save_post(posts, Placeholder(FreshId, rhead[r]))
    /\ rpc' = [rpc EXCEPT ![r] = "done"]
    /\ gpc' = [gpc EXCEPT ![r] = "idle"]
    /\ gret' = [gret EXCEPT ![r] = None]
    /\ glog' = [glog EXCEPT ![r] = None]
    /\ UNCHANGED <<gateVars, garg, now, holders, rhead, rpost, jobVars,
                   emitted, acquires, releases>>

\* step 5: the 503 response, with `current_headline() or "unknown"'
RU_Busy(r) ==
    /\ rpc[r] = "busy"
    /\ gpc[r] = "ret_current_headline"
    /\ resp' = [resp EXCEPT ![r] =
          [code |-> 503, status |-> "busy",
           current_headline |-> IF gret[r] = None THEN Unknown
                                ELSE Val(gret[r])]]
    /\ rpc' = [rpc EXCEPT ![r] = "done"]
    /\ gpc' = [gpc EXCEPT ![r] = "idle"]
    /\ gret' = [gret EXCEPT ![r] = None]
    /\ glog' = [glog EXCEPT ![r] = None]
    /\ UNCHANGED <<gateVars, garg, now, holders, rhead, rpost, jobVars, posts,
                   emitted, acquires, releases>>

\* step 6: the placeholder row; save_post inserts it, or raises (a failed
\* write: the exception leaves receive_update, the caller gets 500)
RU_Save(r) ==
    /\ rpc[r] = "save"
    /\ \E ok \in BOOLEAN :
         IF ok
         THEN /\ posts' = save_post(posts, Placeholder(FreshId, rhead[r]))
              /\ rpost' = [rpost EXCEPT ![r] = Some(FreshId)]
              /\ rpc' = [rpc EXCEPT ![r] = "spawn"]
              /\ UNCHANGED resp
         ELSE /\ resp' = [resp EXCEPT ![r] =
                    [code |-> 500, status |-> "error", post_id |-> None]]
              /\ rpc' = [rpc EXCEPT ![r] = "done"]
              /\ UNCHANGED <<posts, rpost>>
    /\ UNCHANGED <<gateVars, callVars, now, holders, rhead, jobVars, emitted,
                   acquires, releases>>

\* step 7: thread.start() of _run_pipeline_in_background(data, post_id_hint)
RU_Spawn(r) ==
    /\ rpc[r] = "spawn"
    /\ jpc' = [jpc EXCEPT ![Val(rpost[r])] = "generate"]
    /\ jhead' = [jhead EXCEPT ![Val(rpost[r])] = rhead[r]]
    /\ rpc' = [rpc EXCEPT ![r] = "respond"]
    /\ UNCHANGED <<gateVars, callVars, now, holders, rhead, rpost, resp, jgen,
                   posts, emitted, acquires, releases>>

\* step 8 as test_webhook.py (Test 6) expects it: body status "queued"
RU_Accepted_Queued(r) ==
    /\ rpc[r] = "respond"
    /\ resp' = [resp EXCEPT ![r] =
          [code |-> 202, status |-> "queued", post_id |-> rpost[r]]]
    /\ accepted' = accepted \cup {Val(rpost[r])}
    /\ rpc' = [rpc EXCEPT ![r] = "done"]
    /\ UNCHANGED <<gateVars, callVars, now, holders, rhead, rpost, jobVars,
                   posts, emitted, acquires, releases>>

\* step 8: the 202 response
RU_Accepted(r) ==
    /\ rpc[r] = "respond"
    /\ resp' = [resp EXCEPT ![r] =
          [code |-> 202, status |-> "accepted", post_id |-> rpost[r]]]
    /\ accepted' = accepted \cup {Val(rpost[r])}
    /\ rpc' = [rpc EXCEPT ![r] = "done"]
    /\ UNCHANGED <<gateVars, callVars, now, holders, rhead, rpost, jobVars,
                   posts, emitted, acquires, releases>>

\* ---------------------------------- agent/controller.py, in the job's thread

\* the field map run_agent_pipeline publishes with
PublishUpdates(generated) ==
    [title |-> generated.title, summary |-> generated.summary,
     confidence_score |-> generated.confidence_score, status |-> "published"]

\* the field map _reject writes
RejectUpdates(headline, generated) ==
    [title |-> IF generated = None THEN headline ELSE generated.title,
     summary |-> IF generated = None THEN "" ELSE generated.summary,
     confidence_score |-> 0, status |-> "rejected"]

\* step 1: generator.generate_post(payload); `if not generated' rejects
BG_Generate(i) ==
    /\ jpc[i] = "generate"
    /\ \E g \in generate_post(jhead[i]) :
         /\ jgen' = [jgen EXCEPT ![i] = g]
         /\ jpc' = [jpc EXCEPT ![i] = IF g = None THEN "reject" ELSE "safety"]
    /\ UNCHANGED <<gateVars, callVars, now, holders, reqVars, jhead, posts,
                   emitted, acquires, releases>>

\* step 2: build_check_text and run_safety_filter; build_check_text raises
\* on a parsed draft whose key_points are not strings
BG_Safety(i) ==
    /\ jpc[i] = "safety"
    /\ \E outcome \in {"safe", "blocked"} \cup
                       (IF jgen[i].kind = "parsed" THEN {"raise"} ELSE {}) :
         jpc' = [jpc EXCEPT ![i] = CASE outcome = "safe"    -> "publish"
                                     [] outcome = "blocked" -> "reject"
                                     [] outcome = "raise"   -> "finally"]
    /\ UNCHANGED <<gateVars, callVars, now, holders, reqVars, jhead, jgen,
                   posts, emitted, acquires, releases>>

\* _reject as it would be if it saved a rejected row of its own instead of
\* updating the placeholder
BG_Reject_InsertsRow(i) ==
    /\ jpc[i] = "reject"
    /\ posts' = IF PostIds \ DOMAIN posts = {} THEN posts
                ELSE save_post(posts, [Placeholder(FreshId, jhead[i])
                                          EXCEPT !.status = "rejected"])
    /\ jpc' = [jpc EXCEPT ![i] = "finally"]
    /\ UNCHANGED <<gateVars, callVars, now, holders, reqVars, jhead, jgen,
                   emitted, acquires, releases>>

\* _reject as it would be if run_agent_pipeline did not return after it and
\* went on to publish
BG_Reject_FallsThrough(i) ==
    /\ jpc[i] = "reject"
    /\ posts' = update_post(posts, i, RejectUpdates(jhead[i], jgen[i]))
    /\ jpc' = [jpc EXCEPT ![i] = "publish"]
    /\ UNCHANGED <<gateVars, callVars, now, holders, reqVars, jhead, jgen,
                   emitted, acquires, releases>>

\* _reject: update_post(post_id, {..., status: rejected}), or it raises
BG_Reject(i) ==
    /\ jpc[i] = "reject"
    /\ \E ok \in BOOLEAN :
         posts' = IF ok THEN update_post(posts, i, RejectUpdates(jhead[i], jgen[i]))
                  ELSE posts
    /\ jpc' = [jpc EXCEPT ![i] = "finally"]
    /\ UNCHANGED <<gateVars, callVars, now, holders, reqVars, jhead, jgen,
                   emitted, acquires, releases>>

\* step 4: update_post(post_id, updates) with status published, or it raises
BG_Publish(i) ==
    /\ jpc[i] = "publish"
    /\ \E ok \in BOOLEAN :
         IF ok
         THEN /\ posts' = update_post(posts, i, PublishUpdates(jgen[i]))
              /\ jpc' = [jpc EXCEPT ![i] = "broadcast"]
         ELSE /\ posts' = posts
              /\ jpc' = [jpc EXCEPT ![i] = "finally"]
    /\ UNCHANGED <<gateVars, callVars, now, holders, reqVars, jhead, jgen,
                   emitted, acquires, releases>>

\* _broadcast: socketio.emit('new_post', post); a failure is logged only
BG_Broadcast(i) ==
    /\ jpc[i] = "broadcast"
    /\ \E delivered \in BOOLEAN :
         emitted' = IF delivered THEN emitted \cup {i} ELSE emitted
    /\ jpc' = [jpc EXCEPT ![i] = "finally"]
    /\ UNCHANGED <<gateVars, callVars, now, holders, reqVars, jhead, jgen,
                   posts, acquires, releases>>

\* _run_pipeline_in_background: finally: agent_state.release()
BG_Finally(i) ==
    /\ jpc[i] = "finally"
    /\ GateCall(JobThread(i), "release", None)
    /\ releases' = releases + 1
    /\ jpc' = [jpc EXCEPT ![i] = "releasing"]
    /\ UNCHANGED <<reqVars, jhead, jgen, posts, emitted, acquires>>

\* release() returned: the thread ends
BG_Exit(i) ==
    /\ jpc[i] = "releasing"
    /\ gpc[JobThread(i)] = "ret_release"
    /\ jpc' = [jpc EXCEPT ![i] = "exited"]
    /\ gpc' = [gpc EXCEPT ![JobThread(i)] = "idle"]
    /\ glog' = [glog EXCEPT ![JobThread(i)] = None]
    /\ UNCHANGED <<gateVars, garg, gret, now, holders, reqVars, jhead, jgen,
                   posts, emitted, acquires, releases>>

\* ------------------------------------------------------ the service (Spec)
Init ==
    /\ GateInit
    /\ gpc = [t \in Threads |-> "idle"]
    /\ garg = [t \in Threads |-> None]
    /\ gret = [t \in Threads |-> None]
    /\ glog = [t \in Threads |-> None]
    /\ now = 0
    /\ holders = 0
    /\ SysInit
    /\ secret = ServerSecret

\* ghost: a try_acquire that finds the gate busy notes the label it holds;
\* the note is dropped when the busy response is returned
SeenStep(t) ==
    gseen' = IF gpc[t] = "ta_check" /\ _busy
             THEN [gseen EXCEPT ![t] = _current_headline]
             ELSE gseen

SeenReset(t) == gseen' = [gseen EXCEPT ![t] = None]

sysNoSeen == <<reqVars, jobVars, posts, emitted, acquires, releases,
               extNoSeen>>

Next ==
    \/ \E r \in Reqs : \E h \in Headlines : RU_Start(r, h) /\ UNCHANGED extVars
    \/ \E r \in Reqs : RU_DupCheck(r) /\ UNCHANGED extVars
    \/ \E r \in Reqs : RU_AfterAcquire(r) /\ UNCHANGED extVars
    \/ \E r \in Reqs : RU_Busy(r) /\ SeenReset(r) /\ UNCHANGED extNoSeen
    \/ \E r \in Reqs : RU_Save(r) /\ UNCHANGED extVars
    \/ \E r \in Reqs : RU_Spawn(r) /\ UNCHANGED extVars
    \/ \E r \in Reqs : RU_Accepted(r) /\ UNCHANGED extNoAccepted
    \/ \E i \in PostIds : BG_Generate(i) /\ UNCHANGED extVars
    \/ \E i \in PostIds : BG_Safety(i) /\ UNCHANGED extVars
    \/ \E i \in PostIds : BG_Reject(i) /\ UNCHANGED extVars
    \/ \E i \in PostIds : BG_Publish(i) /\ UNCHANGED extVars
    \/ \E i \in PostIds : BG_Broadcast(i) /\ UNCHANGED extVars
    \/ \E i \in PostIds : BG_Finally(i) /\ UNCHANGED extVars
    \/ \E i \in PostIds : BG_Exit(i) /\ UNCHANGED extVars
    \/ \E r \in Reqs : AcquireStep(r) /\ SeenStep(r) /\ UNCHANGED sysNoSeen
    \/ \E r \in Reqs : HeadlineStep(r) /\ UNCHANGED sysVars
    \/ \E i \in PostIds : ReleaseStep(JobThread(i)) /\ UNCHANGED sysVars
    \/ Tick

Spec == Init /\ [][Next]_vars

\* ------------------------------ receive_update from its first step (SpecIngress)

\* X-Webhook-Token as sent: absent, wrong, right
Tokens == {"", "wrong", ServerSecret}

\* WEBHOOK_SECRET of the server: unset, set
Secrets == {"", ServerSecret}

\* hmac.compare_digest(provided.encode(), expected.encode())
compare_digest(a, b) == a = b

\* _token_valid as it would be if it let every token through
_token_valid_AcceptsAny(provided) == TRUE

\* _token_valid: no secret configured refuses every token
_token_valid(provided) ==
    LET expected == secret
    IN  IF expected = "" THEN FALSE ELSE compare_digest(provided, expected)

GoodTimestamp == <<"2", "0", "2", "4", "-", "0", "1", "-", "0", "1", "T", "0", "0", ":", "0", "0", ":", "0", "0", "Z">>
BadMonthTimestamp == <<"2", "0", "2", "4", "-", "1", "3", "-", "0", "1", "T", "0", "0", ":", "0", "0", ":", "0", "0", "Z">>

\* a payload that satisfies validate_payload
GoodPayload(h) ==
    [domain    |-> Str(<<"Technology">>),
     headline  |-> Str(h),
     content   |-> Str(<<"some", " ", "text">>),
     sources   |-> List(<<Str(<<"http://example.org/1">>)>>),
     timestamp |-> Str(GoodTimestamp)]

\* dict d with d[f] = v, and dict d without the key f
With(d, f, v) == [x \in DOMAIN d \cup {f} |-> IF x = f THEN v ELSE d[x]]
Without(d, f) == [x \in DOMAIN d \ {f} |-> d[x]]

\* a text of n symbols
Filler(n) == [i \in 1..n |-> "x"]

\* JSON objects that break the schema, one rule each, and one that breaks
\* two
BadPayloads ==
    LET g == GoodPayload(<<"A">>)
    IN  {Without(g, "headline"),
         With(g, "headline", Num),
         With(g, "domain", Str(<<" ">>)),
         With(g, "sources", List(<<>>)),
         With(g, "sources", List(<<Str(<<"http://example.org/1">>), Num>>)),
         With(g, "timestamp", Str(<<"yesterday">>)),
         With(g, "timestamp", Str(BadMonthTimestamp)),
         With(g, "headline", Str(Filler(MaxHeadlineLen + 1))),
         With(g, "content", Str(Filler(MaxContentLen + 1))),
         Without(With(g, "domain", Str(<<>>)), "timestamp")}

\* JSON objects that differ from a good one by the domain only
OtherDomainPayloads ==
    {With(GoodPayload(<<"B">>), "domain", Str(<<"Sports">>))}

\* request bodies: Content-Type is JSON or not, and what get_json returns
\* (None for a body that does not parse)
Bodies ==
    {[is_json |-> TRUE, data |-> Dict(GoodPayload(h))] : h \in Headlines}
    \cup {[is_json |-> TRUE, data |-> Dict(d)] :
             d \in BadPayloads \cup OtherDomainPayloads}
    \cup {[is_json |-> TRUE, data |-> List(<<>>)],
          [is_json |-> TRUE, data |-> None],
          [is_json |-> FALSE, data |-> None]}

\* step 0: a request arrives with its token header and its body
IN_Receive(r, token, body) ==
    /\ rpc[r] \in {"idle", "done"}
    /\ Cardinality(DOMAIN posts) + Cardinality(InFlight) < MaxPosts
    /\ rpc' = [rpc EXCEPT ![r] = "auth"]
    /\ rtoken' = [rtoken EXCEPT ![r] = token]
    /\ rdata' = [rdata EXCEPT ![r] = body]
    /\ rhead' = [rhead EXCEPT ![r] = None]
    /\ rpost' = [rpost EXCEPT ![r] = None]
    /\ resp' = [resp EXCEPT ![r] = NoResponse]
    /\ UNCHANGED <<gateVars, callVars, now, holders, jobVars, posts, emitted,
                   acquires, releases, accepted, sop, boots, gseen, secret,
                   harvVars, gheld, pipeVars>>

\* step 1: authenticate
IN_Auth(r) ==
    /\ rpc[r] = "auth"
    /\ IF rtoken[r] = ""
       THEN /\ resp' = [resp EXCEPT ![r] =
                  [code |-> 401, status |-> "error",
                   message |-> <<"Missing authentication token. Provide X-Webhook-Token header.">>]]
            /\ rpc' = [rpc EXCEPT ![r] = "done"]
            /\ rdata' = [rdata EXCEPT ![r] = None]
       ELSE IF ~_token_valid(rtoken[r])
       THEN /\ resp' = [resp EXCEPT ![r] =
                  [code |-> 401, status |-> "error",
                   message |-> <<"Invalid authentication token.">>]]
            /\ rpc' = [rpc EXCEPT ![r] = "done"]
            /\ rdata' = [rdata EXCEPT ![r] = None]
       ELSE /\ rpc' = [rpc EXCEPT ![r] = "parse"]
            /\ UNCHANGED <<resp, rdata>>
    /\ rtoken' = [rtoken EXCEPT ![r] = ""]
    /\ UNCHANGED <<gateVars, callVars, now, holders, rhead, rpost, jobVars,
                   posts, emitted, acquires, releases, accepted, sop, boots,
                   gseen, secret, harvVars, gheld, pipeVars>>

\* step 2: parse JSON
IN_Parse(r) ==
    /\ rpc[r] = "parse"
    /\ IF ~rdata[r].is_json
       THEN /\ resp' = [resp EXCEPT ![r] =
                  [code |-> 400, status |-> "error",
                   message |-> <<"Request body must be JSON (Content-Type: application/json).">>]]
            /\ rpc' = [rpc EXCEPT ![r] = "done"]
            /\ rdata' = [rdata EXCEPT ![r] = None]
       ELSE IF rdata[r].data = None
       THEN /\ resp' = [resp EXCEPT ![r] =
                  [code |-> 400, status |-> "error",
                   message |-> <<"Malformed JSON body.">>]]
            /\ rpc' = [rpc EXCEPT ![r] = "done"]
            /\ rdata' = [rdata EXCEPT ![r] = None]
       ELSE /\ rpc' = [rpc EXCEPT ![r] = "validate"]
            /\ UNCHANGED <<resp, rdata>>
    /\ UNCHANGED <<gateVars, callVars, now, holders, rhead, rpost, jobVars,
                   posts, emitted, acquires, releases, accepted, sop, boots,
                   gseen, secret, rtoken, harvVars, gheld, pipeVars>>

\* step 3: validate_payload(data); a valid payload goes on to step 4 with
\* headline = data["headline"]
IN_Validate(r) ==
    /\ rpc[r] = "validate"
    /\ LET checked == validate_payload(rdata[r].data)
       IN  IF ~checked.ok
           THEN /\ resp' = [resp EXCEPT ![r] =
                      [code |-> 400, status |-> "error",
                       message |-> checked.msg]]
                /\ rpc' = [rpc EXCEPT ![r] = "done"]
                /\ UNCHANGED rhead
           ELSE /\ rpc' = [rpc EXCEPT ![r] = "dup"]
                /\ rhead' = [rhead EXCEPT ![r] = rdata[r].data.d.headline.s]
                /\ UNCHANGED resp
    /\ rdata' = [rdata EXCEPT ![r] = None]
    /\ UNCHANGED <<gateVars, callVars, now, holders, rpost, jobVars,
                   posts, emitted, acquires, releases, accepted, sop, boots,
                   gseen, secret, rtoken, harvVars, gheld, pipeVars>>

\* the request thread the ingress specification follows
IngressReqs == {1}

IngressInit ==
    /\ GateInit
    /\ gpc = [t \in Threads |-> "idle"]
    /\ garg = [t \in Threads |-> None]
    /\ gret = [t \in Threads |-> None]
    /\ glog = [t \in Threads |-> None]
    /\ now = 0
    /\ holders = 0
    /\ SysInit
    /\ secret \in Secrets

IngressNext ==
    \/ \E r \in IngressReqs : \E token \in Tokens : \E body \in Bodies :
           IN_Receive(r, token, body)
    \/ \E r \in IngressReqs : IN_Auth(r)
    \/ \E r \in IngressReqs : IN_Parse(r)
    \/ \E r \in IngressReqs : IN_Validate(r)
    \/ \E r \in IngressReqs : RU_DupCheck(r) /\ UNCHANGED extVars
    \/ \E r \in IngressReqs : RU_AfterAcquire(r) /\ UNCHANGED extVars
    \/ \E r \in IngressReqs : RU_Busy(r) /\ SeenReset(r) /\ UNCHANGED extNoSeen
    \/ \E r \in IngressReqs : RU_Save(r) /\ UNCHANGED extVars
    \/ \E r \in IngressReqs : RU_Spawn(r) /\ UNCHANGED extVars
    \/ \E r \in IngressReqs : RU_Accepted(r) /\ UNCHANGED extNoAccepted
    \/ \E i \in PostIds : BG_Generate(i) /\ UNCHANGED extVars
    \/ \E i \in PostIds : BG_Safety(i) /\ UNCHANGED extVars
    \/ \E i \in PostIds : BG_Reject(i) /\ UNCHANGED extVars
    \/ \E i \in PostIds : BG_Publish(i) /\ UNCHANGED extVars
    \/ \E i \in PostIds : BG_Broadcast(i) /\ UNCHANGED extVars
    \/ \E i \in PostIds : BG_Finally(i) /\ UNCHANGED extVars
    \/ \E i \in PostIds : BG_Exit(i) /\ UNCHANGED extVars
    \/ \E r \in IngressReqs : AcquireStep(r) /\ SeenStep(r) /\ UNCHANGED sysNoSeen
    \/ \E r \in IngressReqs : HeadlineStep(r) /\ UNCHANGED sysVars
    \/ \E i \in PostIds : ReleaseStep(JobThread(i)) /\ UNCHANGED sysVars
    \/ Tick

SpecIngress == IngressInit /\ [][IngressNext]_vars

\* ------------------------------------------- feed_collector.py (SpecHarvester)

\* MAX_BUSY_RETRIES: the range of the for loop in send_to_webhook
MAX_BUSY_RETRIES == 10

\* _is_stale: an item older than this many seconds is skipped
StaleAfterSecs == 86400

\* hashlib.md5(text).hexdigest(): a digest that tells two texts apart
md5(text) == <<"md5:">> \o text

_fingerprint_CaseSensitive(payload) == md5(payload.headline)

\* _fingerprint: md5 of the lower-cased, stripped headline
_fingerprint(payload) == md5(Strip(Lower(payload.headline)))

_is_stale_UnreadableIsStale(payload) ==
    IF payload.timestamp.parses /\ payload.timestamp.aware
    THEN payload.timestamp.age > StaleAfterSecs
    ELSE TRUE

\* _is_stale: age of the timestamp above 24 hours; a timestamp that
\* fromisoformat refuses raises, so does subtracting a timestamp without an
\* offset from the offset-aware now, and the except branch answers False
_is_stale(payload) ==
    IF payload.timestamp.parses /\ payload.timestamp.aware
    THEN payload.timestamp.age > StaleAfterSecs
    ELSE FALSE

\* timestamps of the items the feeds yield: their age when send_to_webhook
\* reads the clock, a timestamp without an offset, or a text fromisoformat
\* refuses
ItemTimestamps ==
    { [parses |-> TRUE, aware |-> TRUE, age |-> 0],
      [parses |-> TRUE, aware |-> TRUE, age |-> StaleAfterSecs],
      [parses |-> TRUE, aware |-> TRUE, age |-> StaleAfterSecs + 1],
      [parses |-> TRUE, aware |-> FALSE, age |-> StaleAfterSecs + 1],
      [parses |-> FALSE, aware |-> FALSE, age |-> 0] }

Items == [headline : Headlines, timestamp : ItemTimestamps]

\* hresp when requests.post raised instead of returning a response
NetworkError == 0

\* the status codes receive_update answers with
StatusCodes == {202, 200, 503, 401, 400, 500}

PostOutcomes == StatusCodes \cup {NetworkError}

harvFrame == <<gateVars, callVars, now, holders, reqVars, jobVars, posts,
               emitted, acquires, releases, accepted, sop, boots, gseen,
               inVars, gheld, pipeVars>>

\* run_collection_cycle calls send_to_webhook(payload) for the next item
H_Call(payload) ==
    /\ hpc \in {"idle", "returned_true", "returned_false"}
    /\ hpayload' = Some(payload)
    /\ fp' = Some(_fingerprint(payload))
    /\ hpc' = "check"
    /\ attempt' = 0
    /\ hposts' = 0
    /\ hresp' = NetworkError
    /\ UNCHANGED <<_SEEN, hanswered>>

H_Check_IgnoresSeen ==
    /\ hpc = "check"
    /\ IF _is_stale(Val(hpayload))
       THEN /\ hpc' = "returned_false"
            /\ UNCHANGED attempt
       ELSE /\ hpc' = "post"
            /\ attempt' = 1
    /\ UNCHANGED <<_SEEN, hpayload, fp, hresp, hposts, hanswered>>

\* if fp in _SEEN: return False; if _is_stale(payload): return False;
\* otherwise the for loop starts with attempt = 1
H_Check ==
    /\ hpc = "check"
    /\ IF Val(fp) \in _SEEN
       THEN /\ hpc' = "returned_false"
            /\ UNCHANGED attempt
       ELSE IF _is_stale(Val(hpayload))
       THEN /\ hpc' = "returned_false"
            /\ UNCHANGED attempt
       ELSE /\ hpc' = "post"
            /\ attempt' = 1
    /\ UNCHANGED <<_SEEN, hpayload, fp, hresp, hposts, hanswered>>

H_Post_SeenWhenSettled(outcome) ==
    /\ hpc = "post"
    /\ hposts' = hposts + 1
    /\ hresp' = outcome
    /\ IF outcome = NetworkError
       THEN /\ hpc' = "returned_false"
            /\ UNCHANGED <<_SEEN, hanswered>>
       ELSE /\ _SEEN' = IF outcome \in {202, 200}
                        THEN _SEEN \cup {Val(fp)} ELSE _SEEN
            /\ hanswered' = IF outcome \in {202, 200}
                            THEN hanswered \cup
                                     {_normalise(Val(hpayload).headline)}
                            ELSE hanswered
            /\ hpc' = CASE outcome = 202 -> "returned_true"
                        [] outcome = 200 -> "returned_false"
                        [] outcome = 503 -> "sleep"
                        [] OTHER -> "returned_false"
    /\ UNCHANGED <<hpayload, fp, attempt>>

H_Post_RetriesErrors(outcome) ==
    /\ hpc = "post"
    /\ hposts' = hposts + 1
    /\ hresp' = outcome
    /\ IF outcome = NetworkError
       THEN /\ hpc' = "returned_false"
            /\ UNCHANGED <<_SEEN, hanswered>>
       ELSE /\ _SEEN' = _SEEN \cup {Val(fp)}
            /\ hanswered' = IF outcome \in {202, 200}
                            THEN hanswered \cup
                                     {_normalise(Val(hpayload).headline)}
                            ELSE hanswered
            /\ hpc' = CASE outcome = 202 -> "returned_true"
                        [] outcome = 200 -> "returned_false"
                        [] OTHER -> "sleep"
    /\ UNCHANGED <<hpayload, fp, attempt>>

\* one pass of the loop body: requests.post(...) either raises (connection
\* error, timeout, anything else: return False) or returns a response;
\* after a response _SEEN.add(fp) runs before the status code is looked at;
\* 202 returns True, 200 returns False, 503 goes to sleep, anything else
\* returns False
H_Post(outcome) ==
    /\ hpc = "post"
    /\ hposts' = hposts + 1
    /\ hresp' = outcome
    /\ IF outcome = NetworkError
       THEN /\ hpc' = "returned_false"
            /\ UNCHANGED <<_SEEN, hanswered>>
       ELSE /\ _SEEN' = _SEEN \cup {Val(fp)}
            /\ hanswered' = IF outcome \in {202, 200}
                            THEN hanswered \cup
                                     {_normalise(Val(hpayload).headline)}
                            ELSE hanswered
            /\ hpc' = CASE outcome = 202 -> "returned_true"
                        [] outcome = 200 -> "returned_false"
                        [] outcome = 503 -> "sleep"
                        [] OTHER -> "returned_false"
    /\ UNCHANGED <<hpayload, fp, attempt>>

H_Sleep_OneMore ==
    /\ hpc = "sleep"
    /\ IF attempt < MAX_BUSY_RETRIES + 1
       THEN /\ attempt' = attempt + 1
            /\ hpc' = "post"
       ELSE /\ hpc' = "returned_false"
            /\ UNCHANGED attempt
    /\ UNCHANGED <<_SEEN, hpayload, fp, hresp, hposts, hanswered>>

\* time.sleep(BUSY_WAIT_SECS); continue: the next value of the range, or the
\* end of the loop (the item is logged as skipped and False returned)
H_Sleep ==
    /\ hpc = "sleep"
    /\ IF attempt < MAX_BUSY_RETRIES
       THEN /\ attempt' = attempt + 1
            /\ hpc' = "post"
       ELSE /\ hpc' = "returned_false"
            /\ UNCHANGED attempt
    /\ UNCHANGED <<_SEEN, hpayload, fp, hresp, hposts, hanswered>>

HarvesterNext ==
    \/ \E payload \in Items : H_Call(payload) /\ UNCHANGED harvFrame
    \/ H_Check /\ UNCHANGED harvFrame
    \/ \E outcome \in PostOutcomes : H_Post(outcome) /\ UNCHANGED harvFrame
    \/ H_Sleep /\ UNCHANGED harvFrame

SpecHarvester == Init /\ [][HarvesterNext]_vars

\* ---------------------- generator, safety filter, controller (SpecPipeline)

\* dict.get(key, default)
Get(d, k, default) == IF k \in DOMAIN d THEN d[k] ELSE default

\* s[:n]
Take(s, n) == SubSeq(s, 1, IF Len(s) < n THEN Len(s) ELSE n)

\* a JSON number with its value
NumV(n) == [t |-> "int", n |-> n]

\* the payload the job was started with
JobPayload(i) == [headline |-> jhead[i], content |-> Val(jcontent[i])]

\* _fallback_post(payload): the minimal draft; it has no content field
FallbackDraft(payload) ==
    [title            |-> payload.headline,
     summary          |-> Take(payload.content, 300),
     key_points       |-> List(<< <<"Update received from external source.">> >>),
     why_this_matters |->
         <<"This update was received but could not be fully processed.">>,
     confidence_score |-> 10,
     kind             |-> "fallback"]

\* int(v): a number, or a ValueError for a text that is not one
IntRaises(v) == v.t # "int"

\* _parse_response with the object _extract_json found: the draft's fields
\* are the object's, with the defaults of data.get; the title is cut to 200
_parse_response(data, payload) ==
    [title            |-> Take(Get(data, "title", payload.headline), 200),
     summary          |-> Get(data, "summary", <<>>),
     content          |-> Get(data, "content", <<>>),
     key_points       |-> Get(data, "key_points", List(<<>>)),
     why_this_matters |-> Get(data, "why_this_matters", <<>>),
     confidence_score |-> Get(data, "confidence_score", NumV(50)).n,
     kind             |-> "parsed"]

\* what the call of Ollama can come to: requests.post raises (connection
\* error, timeout), or an answer arrives in which
\* _extract_json finds nothing, a JSON value that is not an object, or an
\* object
CleanAnswer ==
    [title |-> GenTitle, summary |-> <<"calm">>, content |-> <<"long">>,
     key_points |-> List(<< <<"point">> >>), why_this_matters |-> <<"why">>,
     confidence_score |-> NumV(80)]

OllamaOutcomes ==
    { [kind |-> "connection_error"], [kind |-> "timeout"],
      [kind |-> "answer", json |-> None],
      [kind |-> "answer", json |-> Some(List(<<>>))],
      [kind |-> "answer", json |-> Some(Dict(CleanAnswer))],
      [kind |-> "answer", json |->
          Some(Dict(With(CleanAnswer, "summary", <<"a", " ", "Genocide">>)))],
      [kind |-> "answer", json |->
          Some(Dict(With(With(CleanAnswer, "title", <<"they", " ", "kill">>),
                         "summary", <<"all", " ", "day">>)))],
      [kind |-> "answer", json |->
          Some(Dict(With(CleanAnswer, "content", <<"bomb", " ", "making">>)))],
      [kind |-> "answer", json |->
          Some(Dict(With(CleanAnswer, "key_points", Num)))],
      [kind |-> "answer", json |->
          Some(Dict(With(CleanAnswer, "confidence_score", Str(<<"high">>))))] }

\* the line generate_post or _parse_response writes to the logger
GeneratorLog(outcome) ==
    CASE outcome.kind = "connection_error" -> "error: Ollama not reachable"
      [] outcome.kind = "timeout" -> "error: Ollama request timed out"
      [] outcome.json = None -> "warning: Could not parse JSON response"
      [] Val(outcome.json).t # "dict" -> "error: Unexpected error"
      [] IntRaises(Get(Val(outcome.json).d, "confidence_score", NumV(50))) ->
             "error: Unexpected error"
      [] OTHER -> "info: Successfully parsed post"

GeneratePost_NoneOnError(payload, outcome) ==
    IF outcome.kind # "answer" THEN None
    ELSE IF outcome.json = None THEN FallbackDraft(payload)
    ELSE IF Val(outcome.json).t # "dict" THEN FallbackDraft(payload)
    ELSE IF IntRaises(Get(Val(outcome.json).d, "confidence_score", NumV(50)))
    THEN FallbackDraft(payload)
    ELSE _parse_response(Val(outcome.json).d, payload)

\* generate_post(payload) when the call of Ollama comes to `outcome': the
\* three except branches and the `data is None' branch of _parse_response
\* return the fallback; data.get on a value that is not an object and int()
\* on a text raise inside the try and end in `except Exception'
GeneratePost(payload, outcome) ==
    IF outcome.kind # "answer" THEN FallbackDraft(payload)
    ELSE IF outcome.json = None THEN FallbackDraft(payload)
    ELSE IF Val(outcome.json).t # "dict" THEN FallbackDraft(payload)
    ELSE IF IntRaises(Get(Val(outcome.json).d, "confidence_score", NumV(50)))
    THEN FallbackDraft(payload)
    ELSE _parse_response(Val(outcome.json).d, payload)

\* " ".join(parts)
RECURSIVE JoinSpace(_)
JoinSpace(parts) ==
    IF parts = <<>> THEN <<>>
    ELSE IF Len(parts) = 1 THEN parts[1]
    ELSE parts[1] \o <<" ">> \o JoinSpace(Tail(parts))

\* build_check_text raises when key_points is not a list of strings
CheckTextRaises(post) == post.key_points.t # "list"

\* safety.build_check_text: title, summary, why_this_matters and the joined
\* key_points, joined with spaces (the content field is not among them)
build_check_text(post) ==
    JoinSpace(<<post.title, post.summary, post.why_this_matters,
                JoinSpace(post.key_points.l)>>)

\* _ALL_PATTERNS in their order: \bw1\s+w2\b is the phrase <<w1, w2>>; a
\* pattern with a character class stands as two of the words it matches
_ALL_PATTERNS ==
    << <<"hate speech", <<"kill", "all">> >>,
       <<"hate speech", <<"exterminate">> >>,
       <<"hate speech", <<"genocide">> >>,
       <<"hate speech", <<"ethnic", "cleansing">> >>,
       <<"hate speech", <<"subhuman">> >>,
       <<"hate speech", <<"vermin">> >>,
       <<"hate speech", <<"infidel">> >>,
       <<"hate speech", <<"infidels">> >>,
       <<"hate speech", <<"die", "you">> >>,
       <<"violent content", <<"bomb", "making">> >>,
       <<"violent content", <<"how", "to", "make", "a", "bomb">> >>,
       <<"violent content", <<"terrorist", "attack">> >>,
       <<"violent content", <<"mass", "shooting">> >>,
       <<"violent content", <<"suicide", "bomb">> >>,
       <<"violent content", <<"beheading">> >>,
       <<"vulgar language", <<"fuck">> >>,
       <<"vulgar language", <<"f*ck">> >>,
       <<"vulgar language", <<"shit">> >>,
       <<"vulgar language", <<"s*it">> >>,
       <<"vulgar language", <<"cunt">> >>,
       <<"vulgar language", <<"c*nt">> >>,
       <<"vulgar language", <<"bitch">> >>,
       <<"vulgar language", <<"b*tch">> >>,
       <<"vulgar language", <<"asshole">> >>,
       <<"vulgar language", <<"a*hole">> >>,
       <<"anti-human content", <<"human", "trafficking">> >>,
       <<"anti-human content", <<"child", "abuse">> >>,
       <<"anti-human content", <<"child", "pornography">> >>,
       <<"anti-human content", <<"sex", "slave">> >>,
       <<"anti-human content", <<"torture", "manual">> >> >>

\* the phrase stands in the text from position p on: each of its words is
\* one symbol, words are parted by one or more spaces (\s+), and the last
\* word ends at a word boundary (\b)
RECURSIVE MatchAt(_, _, _)
MatchAt(phrase, text, p) ==
    /\ text[p] = phrase[1]
    /\ IF Len(phrase) = 1
       THEN p = Len(text) \/ text[p + 1] = " "
       ELSE \E q \in (p + 2)..Len(text) :
                /\ \A m \in (p + 1)..(q - 1) : text[m] = " "
                /\ MatchAt(Tail(phrase), text, q)

\* pattern.search(text) with re.IGNORECASE: the phrase stands somewhere in
\* the lower-cased text, beginning at a word boundary
Search(phrase, text) ==
    LET lowered == Lower(text)
    IN  \E p \in 1..Len(lowered) :
            /\ p = 1 \/ lowered[p - 1] = " "
            /\ MatchAt(phrase, lowered, p)

\* run_safety_filter: the first pattern that matches names the reason
run_safety_filter(text) ==
    LET hits == {k \in DOMAIN _ALL_PATTERNS :
                     Search(_ALL_PATTERNS[k][2], text)}
    IN  IF hits = {}
        THEN [is_safe |-> TRUE, reason |-> None]
        ELSE LET first == CHOOSE k \in hits : \A m \in hits : k <= m
             IN  [is_safe |-> FALSE,
                  reason  |-> Some(<<"Content blocked: matched ",
                                     _ALL_PATTERNS[first][1], " filter.">>)]

\* the content of the payloads sent
PayloadContents == { <<"Kill", " ", "all">>, Filler(301) }

extNoPipe == <<accepted, sop, boots, gseen, inVars, harvVars, gheld>>

pipeFrame == <<gateVars, callVars, now, holders, reqVars, jhead, emitted,
               acquires, releases, extNoPipe, rcontent, jcontent>>

\* receive_update is entered with a valid payload: its headline and content
PL_Start(r, h, c) ==
    /\ RU_Start(r, h)
    /\ rcontent' = [rcontent EXCEPT ![r] = Some(c)]
    /\ UNCHANGED <<extNoPipe, jcontent, jres, jlog>>

\* step 7: the thread is started with the payload and the post id
PL_Spawn(r) ==
    /\ RU_Spawn(r)
    /\ jcontent' = [jcontent EXCEPT ![Val(rpost[r])] = rcontent[r]]
    /\ UNCHANGED <<extNoPipe, rcontent, jres, jlog>>

\* step 1: generated = generator.generate_post(payload);
\* `if not generated' goes to _reject with "AI generation failed."
PL_Generate(i) ==
    /\ jpc[i] = "generate"
    /\ \E outcome \in OllamaOutcomes :
         LET generated == GeneratePost(JobPayload(i), outcome)
         IN  /\ jgen' = [jgen EXCEPT ![i] = generated]
             /\ jlog' = [jlog EXCEPT ![i] = Some(GeneratorLog(outcome))]
             /\ jpc' = [jpc EXCEPT ![i] =
                            IF generated = None THEN "reject" ELSE "safety"]
    /\ UNCHANGED <<pipeFrame, posts, jres>>

\* step 2: check_text = build_check_text(generated), which may raise;
\* is_safe, safety_reason = run_safety_filter(check_text)
PL_Safety(i) ==
    /\ jpc[i] = "safety"
    /\ IF CheckTextRaises(jgen[i])
       THEN /\ jpc' = [jpc EXCEPT ![i] = "finally"]
            /\ jlog' = [jlog EXCEPT ![i] = Some("error: Pipeline error")]
       ELSE /\ jpc' = [jpc EXCEPT ![i] =
                  IF run_safety_filter(build_check_text(jgen[i])).is_safe
                  THEN "publish" ELSE "reject"]
            /\ UNCHANGED jlog
    /\ UNCHANGED <<pipeFrame, posts, jgen, jres>>

\* the reason _reject is called with
RejectReason(generated) ==
    IF generated = None THEN <<"AI generation failed.">>
    ELSE Val(run_safety_filter(build_check_text(generated)).reason)

\* return _reject(...): update_post(post_id, {..., status: rejected}), which
\* may raise, then the result dict
PL_Reject(i) ==
    /\ jpc[i] = "reject"
    /\ \E ok \in BOOLEAN :
         IF ok
         THEN /\ posts' = update_post(posts, i,
                              RejectUpdates(jhead[i], jgen[i]))
              /\ jres' = [jres EXCEPT ![i] =
                     Some([status  |-> "rejected",
                           message |-> RejectReason(jgen[i])])]
              /\ UNCHANGED jlog
         ELSE /\ jlog' = [jlog EXCEPT ![i] = Some("error: Pipeline error")]
              /\ UNCHANGED <<posts, jres>>
    /\ jpc' = [jpc EXCEPT ![i] = "finally"]
    /\ UNCHANGED <<pipeFrame, jgen>>

\* step 4: update_post(post_id, updates) with status published, which may
\* raise
PL_Publish(i) ==
    /\ BG_Publish(i)
    /\ jlog' = IF jpc'[i] = "finally"
               THEN [jlog EXCEPT ![i] = Some("error: Pipeline error")]
               ELSE jlog
    /\ UNCHANGED <<extNoPipe, rcontent, jcontent, jres>>

PublishedResult(generated) ==
    [status  |-> "published",
     message |-> <<"Post published successfully. Confidence: ",
                   generated.confidence_score, "%">>]

PL_Broadcast_Propagates(i) ==
    /\ jpc[i] = "broadcast"
    /\ \E delivered \in BOOLEAN :
         /\ emitted' = IF delivered THEN emitted \cup {i} ELSE emitted
         /\ jlog' = IF delivered THEN jlog
                    ELSE [jlog EXCEPT ![i] = Some("error: Pipeline error")]
         /\ jres' = IF delivered
                    THEN [jres EXCEPT ![i] = Some(PublishedResult(jgen[i]))]
                    ELSE jres
    /\ jpc' = [jpc EXCEPT ![i] = "finally"]
    /\ UNCHANGED <<gateVars, callVars, now, holders, reqVars, jhead, posts,
                   acquires, releases, extNoPipe, rcontent, jcontent, jgen>>

\* _broadcast(post): socketio.emit('new_post', post) inside try/except, a
\* failure is logged as a warning; then the published result is returned
PL_Broadcast(i) ==
    /\ jpc[i] = "broadcast"
    /\ \E delivered \in BOOLEAN :
         /\ emitted' = IF delivered THEN emitted \cup {i} ELSE emitted
         /\ jlog' = IF delivered THEN jlog
                    ELSE [jlog EXCEPT ![i] =
                             Some("warning: WebSocket broadcast failed")]
    /\ jres' = [jres EXCEPT ![i] = Some(PublishedResult(jgen[i]))]
    /\ jpc' = [jpc EXCEPT ![i] = "finally"]
    /\ UNCHANGED <<gateVars, callVars, now, holders, reqVars, jhead, posts,
                   acquires, releases, extNoPipe, rcontent, jcontent, jgen>>

\* release() returned: the thread ends, and with it the locals of
\* _run_pipeline_in_background and run_agent_pipeline
PL_Exit(i) ==
    /\ jpc[i] = "releasing"
    /\ gpc[JobThread(i)] = "ret_release"
    /\ jpc' = [jpc EXCEPT ![i] = "exited"]
    /\ gpc' = [gpc EXCEPT ![JobThread(i)] = "idle"]
    /\ glog' = [glog EXCEPT ![JobThread(i)] = None]
    /\ jgen' = [jgen EXCEPT ![i] = None]
    /\ jcontent' = [jcontent EXCEPT ![i] = None]
    /\ jres' = [jres EXCEPT ![i] = None]
    /\ UNCHANGED <<gateVars, garg, gret, now, holders, reqVars, jhead, posts,
                   emitted, acquires, releases, extNoPipe, rcontent, jlog>>

\* the request thread the pipeline specification follows
PipeReqs == {1}

PipelineNext ==
    \/ \E r \in PipeReqs : \E h \in Headlines : \E c \in PayloadContents :
           PL_Start(r, h, c)
    \/ \E r \in PipeReqs : RU_DupCheck(r) /\ UNCHANGED extVars
    \/ \E r \in PipeReqs : RU_AfterAcquire(r) /\ UNCHANGED extVars
    \/ \E r \in PipeReqs : RU_Busy(r) /\ SeenReset(r) /\ UNCHANGED extNoSeen
    \/ \E r \in PipeReqs : RU_Save(r) /\ UNCHANGED extVars
    \/ \E r \in PipeReqs : PL_Spawn(r)
    \/ \E r \in PipeReqs : RU_Accepted(r) /\ UNCHANGED extNoAccepted
    \/ \E i \in PostIds : PL_Generate(i)
    \/ \E i \in PostIds : PL_Safety(i)
    \/ \E i \in PostIds : PL_Reject(i)
    \/ \E i \in PostIds : PL_Publish(i)
    \/ \E i \in PostIds : PL_Broadcast(i)
    \/ \E i \in PostIds : BG_Finally(i) /\ UNCHANGED extVars
    \/ \E i \in PostIds : PL_Exit(i)
    \/ \E r \in PipeReqs : AcquireStep(r) /\ SeenStep(r) /\ UNCHANGED sysNoSeen
    \/ \E r \in PipeReqs : HeadlineStep(r) /\ UNCHANGED sysVars
    \/ \E i \in PostIds : ReleaseStep(JobThread(i)) /\ UNCHANGED sysVars
    \/ Tick

SpecPipeline == Init /\ [][PipelineNext]_vars

\* ------------------------------------- the service restarted (SpecRestart)

\* the process dies at any point and is started again: everything held in
\* memory (the gate, the threads, the calls in progress) is gone, the
\* database file stays, and module startup runs init_db() and nothing else
\* (the ghosts count for the running process and start again)
Restart ==
    /\ boots < MaxBoots
    /\ boots' = boots + 1
    /\ _busy' = FALSE
    /\ _current_headline' = None
    /\ _busy_since' = None
    /\ _lock' = 0
    /\ gpc' = [t \in Threads |-> "idle"]
    /\ garg' = [t \in Threads |-> None]
    /\ gret' = [t \in Threads |-> None]
    /\ glog' = [t \in Threads |-> None]
    /\ holders' = 0
    /\ rpc' = [r \in Reqs |-> "idle"]
    /\ rhead' = [r \in Reqs |-> None]
    /\ rpost' = [r \in Reqs |-> None]
    /\ resp' = [r \in Reqs |-> NoResponse]
    /\ jpc' = [i \in PostIds |-> "none"]
    /\ jhead' = [i \in PostIds |-> None]
    /\ jgen' = [i \in PostIds |-> None]
    /\ posts' = init_db(posts)
    /\ emitted' = {}
    /\ acquires' = 0
    /\ releases' = 0
    /\ accepted' = {}
    /\ gseen' = [t \in Threads |-> None]
    /\ rtoken' = [r \in Reqs |-> ""]
    /\ rdata' = [r \in Reqs |-> None]
    /\ gheld' = None
    /\ rcontent' = [r \in Reqs |-> None]
    /\ jcontent' = [i \in PostIds |-> None]
    /\ jres' = [i \in PostIds |-> None]
    /\ jlog' = [i \in PostIds |-> None]
    /\ UNCHANGED <<now, sop, secret, harvVars>>

NextRestart ==
    \/ Next
    \/ Restart

SpecRestart == Init /\ [][NextRestart]_vars

\* ------------------------------- database.py called directly (SpecStore)
StoreIds == 1..MaxRows

\* the post dicts handed to save_post
StorePosts ==
    {[id |-> i, title |-> h, summary |-> "", confidence_score |-> 0,
      status |-> st] : i \in StoreIds, h \in Headlines, st \in PostStatus}

\* the `updates' dicts handed to update_post: empty, unknown keys only,
\* known keys, and a mix
FieldMaps ==
    {<<>>,
     [bogus |-> "x"],
     [headline_hash |-> <<"x">>],
     [status |-> "published"],
     [status |-> "rejected"],
     [title |-> GenTitle, status |-> "published", headline_hash |-> <<"x">>]}

DB_Save(post) ==
    /\ sop' = [op |-> "save_post", post |-> post,
               raised |-> IF SaveConflict(posts, post) THEN "IntegrityError"
                          ELSE "none"]
    /\ posts' = save_post(posts, post)

DB_Update(post_id, updates) ==
    /\ sop' = [op |-> "update_post", post_id |-> post_id, updates |-> updates]
    /\ posts' = update_post(posts, post_id, updates)

DB_Cleanup(max_age_minutes, old) ==
    LET done == cleanup_stale_processing(posts, max_age_minutes, old)
    IN  /\ sop' = [op |-> "cleanup_stale_processing",
                   max_age_minutes |-> max_age_minutes, ret |-> done.count]
        /\ posts' = done.rows

DB_Exists(headline) ==
    /\ sop' = [op |-> "headline_exists", headline |-> headline,
               ret |-> headline_exists(posts, headline)]
    /\ posts' = posts

storeFrame == <<gateVars, callVars, now, holders, reqVars, jobVars, emitted,
                acquires, releases, accepted, boots, gseen, inVars, harvVars,
                gheld, pipeVars>>

StoreNext ==
    \/ \E post \in StorePosts : DB_Save(post) /\ UNCHANGED storeFrame
    \/ \E i \in StoreIds : \E u \in FieldMaps :
           DB_Update(i, u) /\ UNCHANGED storeFrame
    \/ \E m \in {0, DefaultMaxAge} : \E old \in SUBSET DOMAIN posts :
           DB_Cleanup(m, old) /\ UNCHANGED storeFrame
    \/ \E h \in Headlines : DB_Exists(h) /\ UNCHANGED storeFrame

SpecStore == Init /\ [][StoreNext]_vars

\* ------------------------------------------- the gate on its own (SpecGate)
GateThreads == 1..NumGateThreads
GateMethods == {"try_acquire", "release", "current_headline", "status_dict"}

GateOnlyInit ==
    /\ GateInit
    /\ gpc = [t \in Threads |-> "idle"]
    /\ garg = [t \in Threads |-> None]
    /\ gret = [t \in Threads |-> None]
    /\ glog = [t \in Threads |-> None]
    /\ now = 0
    /\ holders = 0
    /\ SysInit
    /\ secret = ServerSecret

\* ghost: the try_acquire that wins notes its label and the instant; the
\* release that frees the gate drops the note
HeldAcquire(t) ==
    gheld' = IF gpc[t] = "ta_since"
             THEN Some([headline |-> garg[t], since |-> now])
             ELSE gheld

HeldRelease(t) ==
    gheld' = IF gpc[t] = "rel_busy" THEN None ELSE gheld

sysNoHeld == <<reqVars, jobVars, posts, emitted, acquires, releases,
               extNoHeld>>

ReturnLabels == {"ret_try_acquire", "ret_release", "ret_current_headline",
                 "ret_status_dict"}

\* any thread calls any method with any label
AnyCall(t) == \E m \in GateMethods : \E h \in Headlines :
    GateCall(t, m, IF m = "try_acquire" THEN h ELSE None)

\* the caller takes the returned value
AnyReturn(t) ==
    /\ gpc[t] \in ReturnLabels
    /\ gpc' = [gpc EXCEPT ![t] = "idle"]
    /\ gret' = [gret EXCEPT ![t] = None]
    /\ glog' = [glog EXCEPT ![t] = None]
    /\ UNCHANGED <<gateVars, garg, now, holders>>

GateNext ==
    \/ \E t \in GateThreads : AnyCall(t) /\ UNCHANGED sysVars
    \/ \E t \in GateThreads :
           AcquireStep(t) /\ HeldAcquire(t) /\ UNCHANGED sysNoHeld
    \/ \E t \in GateThreads :
           ReleaseStep(t) /\ HeldRelease(t) /\ UNCHANGED sysNoHeld
    \/ \E t \in GateThreads : HeadlineStep(t) /\ UNCHANGED sysVars
    \/ \E t \in GateThreads : StatusStep(t) /\ UNCHANGED sysVars
    \/ \E t \in GateThreads : AnyReturn(t) /\ UNCHANGED sysVars
    \/ Tick

SpecGate == GateOnlyInit /\ [][GateNext]_vars

\* ------------------------------------------------------------ properties

\* a request thread that won the gate and has not yet handed it to a job
ReqHolders == {r \in Reqs :
    \/ gpc[r] \in {"ta_headline", "ta_since"}
    \/ gpc[r] = "ret_try_acquire" /\ gret[r] = TRUE
    \/ rpc[r] \in {"save", "spawn"}}

\* a pipeline thread that runs its job and has not yet cleared the busy flag
JobHolders == {i \in PostIds :
    \/ jpc[i] \in {"generate", "safety", "reject", "publish", "broadcast",
                   "finally"}
    \/ /\ jpc[i] = "releasing"
       /\ gpc[JobThread(i)] \in {"release", "rel_check", "rel_busy"}}

\* C1: at most one pipeline job runs at any instant: between a successful
\* try_acquire and the release that follows it no other request holds the
\* gate and no second pipeline thread runs.
C1_OneJobAtATime ==
    /\ Cardinality(ReqHolders) + Cardinality(JobHolders) <= 1
    /\ (ReqHolders # {} \/ JobHolders # {}) => holders = 1

\* a job runs while another request was turned away by the gate
C1_Witness ==
    \E i \in PostIds : \E r \in Reqs :
        /\ jpc[i] = "safety"
        /\ rpc[r] = "busy"
        /\ i \in JobHolders

LivePosts(h) == {i \in DOMAIN posts :
    /\ posts[i].headline_hash = h
    /\ posts[i].status \in {"published", "processing"}}

\* C2: the store never holds two Posts with the same headline_hash whose
\* status is published or processing.
C2_NoDoubleAdmission ==
    \A i \in DOMAIN posts : Cardinality(LivePosts(posts[i].headline_hash)) <= 1

\* no thread is between a successful try_acquire and the end of its release
NoJobInProgress ==
    /\ ReqHolders = {}
    /\ \A i \in PostIds : jpc[i] \in {"none", "exited"}

\* C3: release is called exactly once for every successful try_acquire of
\* the endpoint, and the gate is busy exactly from that try_acquire until
\* that release: whenever no admitted job is in progress, every acquire has
\* had its release and the gate is not busy.
C3_ReleaseExactlyOnce ==
    /\ releases <= acquires
    /\ NoJobInProgress => (acquires = releases /\ ~_busy)

\* C4: after a store write failed for a job whose try_acquire succeeded
\* (here the placeholder insert, answered with 500), the gate does not stay
\* busy with no job left to release it.
C4_GateFreedAfterWriteFailure ==
    \A r \in Reqs :
        (rpc[r] = "done" /\ resp[r].code = 500 /\ NoJobInProgress) => ~_busy

\* what a step of try_acquire in thread t must do
TryAcquireStep(t) ==
    /\ (gpc[t] = "ta_check" /\ gpc'[t] # "ta_check") =>
          IF _busy
          THEN /\ gpc'[t] = "ret_try_acquire"
               /\ gret'[t] = FALSE
               /\ UNCHANGED <<_busy, _current_headline, _busy_since>>
          ELSE gpc'[t] = "ta_busy"
    /\ (gpc[t] = "ta_since" /\ gpc'[t] # "ta_since") =>
          /\ gpc'[t] = "ret_try_acquire"
          /\ gret'[t] = TRUE
          /\ _busy'
          /\ _current_headline' = Some(garg[t])
          /\ _busy_since' = Some(now)

\* C5: try_acquire is atomic: of the callers on a free gate exactly one gets
\* True, and the gate then holds that caller's label and timestamp; a call on
\* a busy gate returns False and leaves busy, current_headline and busy_since
\* unchanged.
C5_TryAcquireAtomic ==
    /\ [](holders \in {0, 1})
    /\ [](Cardinality({t \in Threads :
              gpc[t] \in {"ta_busy", "ta_headline", "ta_since"}}) <= 1)
    /\ [][\A t \in Threads : TryAcquireStep(t)]_vars

\* two concurrent callers: one got True, the other False
C5_Witness ==
    \E t, u \in Threads :
        /\ gpc[t] = "ret_try_acquire" /\ gret[t] = TRUE
        /\ gpc[u] = "ret_try_acquire" /\ gret[u] = FALSE
        /\ holders = 1

\* C6: release on a busy gate makes it not busy and clears current_headline
\* and busy_since; release on a gate that is not busy returns normally and
\* leaves the gate as it was (not busy, label and timestamp cleared).
C6_Release ==
    [][\A t \in Threads :
         (gpc'[t] = "ret_release" /\ gpc[t] # "ret_release") =>
            /\ ~_busy'
            /\ _current_headline' = None
            /\ _busy_since' = None
            /\ gpc[t] = "rel_check" =>
                  /\ ~_busy
                  /\ UNCHANGED <<_busy, _current_headline, _busy_since>>
            /\ gpc[t] \in {"rel_check", "rel_since"}]_vars

\* one release freed the gate, a second one found it free and only warned
C6_Witness ==
    \E t, u \in Threads :
        /\ gpc[t] = "ret_release" /\ glog[t] = Some("info: READY")
        /\ gpc[u] = "ret_release"
        /\ glog[u] = Some("warning: release while READY")
        /\ ~_busy

\* C7: whenever no call is inside the critical section, busy implies that
\* current_headline and busy_since are set, and not busy implies both are
\* None.
C7_GateInvariant ==
    _lock = 0 =>
        /\ _busy => (_current_headline # None /\ _busy_since # None)
        /\ ~_busy => (_current_headline = None /\ _busy_since = None)

\* a status call saw the busy gate after an acquire and a release before it
C7_Witness ==
    /\ _lock = 0
    /\ _busy
    /\ \E t \in Threads : gpc[t] = "ret_status_dict" /\ gret[t].busy
    /\ \E t \in Threads : gpc[t] = "ret_release" /\ glog[t] = Some("info: READY")

\* request r takes a step
StepOf(r) == rpc'[r] # rpc[r] \/ gpc'[r] # gpc[r]

\* C8: a request whose try_acquire finds the gate busy is answered 503 and
\* writes nothing: from the failed try_acquire to the response no step of the
\* request changes the posts table, and it registers no placeholder.
C8_BusyLeavesStoreUnchanged ==
    /\ [][\A r \in Reqs :
            /\ (rpc[r] = "acquire" /\ gpc[r] = "ta_check" /\ _busy /\ StepOf(r))
                  => (gpc'[r] = "ret_try_acquire" /\ gret'[r] = FALSE)
            /\ (rpc[r] = "acquire" /\ gpc[r] = "ret_try_acquire"
                   /\ gret[r] = FALSE /\ StepOf(r))
                  => (rpc'[r] = "busy" /\ posts' = posts)
            /\ (rpc[r] = "busy" /\ StepOf(r)) => posts' = posts
            /\ (rpc[r] = "busy" /\ rpc'[r] # "busy")
                  => (rpc'[r] = "done" /\ resp'[r].code = 503
                      /\ resp'[r].status = "busy")]_vars
    /\ [](\A r \in Reqs : (rpc[r] = "busy" \/ resp[r].code = 503)
                              => rpost[r] = None)

\* a request for a headline with no live Post was answered 503 while a job
\* for another headline held the gate
C8_Witness ==
    \E r \in Reqs :
        /\ rpc[r] = "done" /\ resp[r].code = 503
        /\ LivePosts(_normalise(rhead[r])) = {}
        /\ _busy
        /\ Cardinality(DOMAIN posts) = 1

\* C9: a request for H whose duplicate check finds a Post with
\* headline_hash(H) published or processing is answered 200 duplicate, with
\* the gate free or busy, without calling the gate and without changing the
\* gate or the store; and a published Post stays published with its hash.
C9_DuplicateOutcome ==
    /\ [][\A r \in Reqs :
            (rpc[r] = "dup" /\ rpc'[r] # "dup"
                 /\ LivePosts(Strip(Lower(rhead[r]))) # {}) =>
               /\ rpc'[r] = "done"
               /\ resp'[r].code = 200 /\ resp'[r].status = "duplicate"
               /\ gpc'[r] = gpc[r]
               /\ UNCHANGED <<_busy, _current_headline, _busy_since, _lock>>
               /\ posts' = posts]_vars
    /\ [][\A i \in DOMAIN posts : posts[i].status = "published" =>
            /\ i \in DOMAIN posts'
            /\ posts'[i].status = "published"
            /\ posts'[i].headline_hash = posts[i].headline_hash]_vars

\* a resubmission spelled otherwise than the first submission got 200 while
\* the first one's job still held the gate
C9_Witness ==
    \E r \in Reqs : \E i \in DOMAIN posts :
        /\ rpc[r] = "done" /\ resp[r].code = 200
        /\ posts[i].headline_hash = _normalise(rhead[r])
        /\ posts[i].title # rhead[r]
        /\ posts[i].status = "processing"
        /\ _busy

RejectedOnly(h) ==
    /\ \E i \in DOMAIN posts : posts[i].headline_hash = h
    /\ \A i \in DOMAIN posts :
          posts[i].headline_hash = h => posts[i].status = "rejected"

C11_AdmittedJobEndsTerminal ==
    \A i \in PostIds :
        jpc[i] = "exited" =>
            /\ i \in DOMAIN posts
            /\ posts[i].status \in {"published", "rejected"}

\* the process has been started again and no request has arrived since
FreshlyStarted == boots > 0 /\ \A r \in Reqs : rpc[r] = "idle"

\* C12: startup sweeps the store before work is admitted: once the process
\* has been started again no row is left in `processing', so only a
\* published row makes a headline a duplicate (the headline of the job that
\* was in flight at the crash can be submitted again)
C12_NoProcessingAfterRestart ==
    FreshlyStarted =>
        /\ \A i \in DOMAIN posts : posts[i].status # "processing"
        /\ \A h \in Headlines :
               headline_exists(posts, h) =>
                   \E i \in DOMAIN posts :
                       /\ posts[i].headline_hash = _normalise(h)
                       /\ posts[i].status = "published"

\* the rows of tbl in status `processing'
Processing(tbl) == {i \in DOMAIN tbl : tbl[i].status = "processing"}

\* C13: cleanup_stale_processing with max_age 0 on a store with N processing
\* rows turns all N into rejected, leaves none in processing, returns N and
\* leaves every published or rejected row as it was
C13_SweepRejectsAllProcessing ==
    [][(sop'.op = "cleanup_stale_processing" /\ sop'.max_age_minutes = 0) =>
          /\ DOMAIN posts' = DOMAIN posts
          /\ \A i \in Processing(posts) :
                 posts'[i] = [posts[i] EXCEPT !.status = "rejected"]
          /\ Processing(posts') = {}
          /\ sop'.ret = Cardinality(Processing(posts))
          /\ \A i \in DOMAIN posts \ Processing(posts) : posts'[i] = posts[i]
      ]_vars

\* the sweep has just turned two processing rows into rejected ones
C13_Witness ==
    /\ sop.op = "cleanup_stale_processing"
    /\ sop.max_age_minutes = 0
    /\ sop.ret = 2
    /\ Cardinality({i \in DOMAIN posts : posts[i].status = "rejected"}) = 2

\* C14: headline_exists(H) is true exactly when the store holds a row whose
\* headline_hash is H lowercased and trimmed and whose status is published
\* or processing; it is false when every row with that hash is rejected;
\* and the call never modifies the store
C14_HeadlineExists ==
    [][sop'.op = "headline_exists" =>
          LET H == Strip(Lower(sop'.headline))
              same == {i \in DOMAIN posts : posts[i].headline_hash = H}
          IN  /\ sop'.ret <=> \E i \in same :
                     posts[i].status = "published"
                     \/ posts[i].status = "processing"
              /\ (\A i \in same : posts[i].status = "rejected") => ~sop'.ret
              /\ posts' = posts
      ]_vars

\* the lookup of "a " has just answered true on a store holding, under the
\* hash "a", a rejected row and a processing row saved with the title "A"
C14_Witness ==
    /\ sop.op = "headline_exists"
    /\ sop.headline = <<"a", " ">>
    /\ sop.ret
    /\ \E i, j \in DOMAIN posts :
           /\ posts[i].headline_hash = <<"a">> /\ posts[i].status = "rejected"
           /\ posts[j].headline_hash = <<"a">> /\ posts[j].status = "processing"
           /\ posts[j].title = <<"A">>

\* the keys update_post's field_map knows
FieldMapKeys ==
    {"title", "domain", "summary", "content", "key_points",
     "why_this_matters", "sources", "confidence_score", "status"}

\* C16: update_post with an empty field map, or one holding only unknown
\* keys, leaves every stored row unchanged, whatever the id
C16_EmptyUpdateChangesNothing ==
    [][(sop'.op = "update_post"
        /\ DOMAIN sop'.updates \cap FieldMapKeys = {}) => posts' = posts]_vars

\* update_post has just been called on an existing row with a map holding
\* only a key field_map does not know, and the row's hash is not that value
C16_Witness ==
    /\ sop.op = "update_post"
    /\ sop.updates = [headline_hash |-> <<"x">>]
    /\ sop.post_id \in DOMAIN posts
    /\ posts[sop.post_id].headline_hash # <<"x">>

\* C17: save_post of a post whose id is already in the store fails with a
\* conflict and leaves that row and the rest of the store unchanged
C17_SaveConflictLeavesStore ==
    [][(sop'.op = "save_post" /\ sop'.post.id \in DOMAIN posts) =>
          /\ sop'.raised = "IntegrityError"
          /\ posts' = posts
      ]_vars

\* save_post has just been refused for an id whose row differs from the post
C17_Witness ==
    /\ sop.op = "save_post"
    /\ sop.raised = "IntegrityError"
    /\ Cardinality(DOMAIN posts) = 2
    /\ posts[sop.post.id].title # sop.post.title
    /\ posts[sop.post.id].status # sop.post.status

\* C15: no step changes a row's headline_hash: after the job has published
\* or rejected the row, under a generated title or not, the hash is still
\* the submitted headline lowercased and trimmed, so a request that submits
\* again the headline of a published row is answered 200 duplicate
C15_HashSurvivesUpdate ==
    [][/\ \A i \in DOMAIN posts :
              /\ i \in DOMAIN posts'
              /\ posts'[i].headline_hash = posts[i].headline_hash
       /\ \A i \in DOMAIN posts' :
              jhead'[i] # None =>
                  posts'[i].headline_hash = Strip(Lower(jhead'[i]))
       /\ \A r \in Reqs :
              (/\ rpc[r] = "dup" /\ rpc'[r] # "dup"
               /\ \E i \in DOMAIN posts : /\ posts[i].status = "published"
                                          /\ jhead[i] = rhead[r])
              => /\ resp'[r].code = 200
                 /\ resp'[r].status = "duplicate"
      ]_vars

\* the row of headline "A" is published under the generated title, its hash
\* is still "a", and a request that submitted "A" again got 200 duplicate
C15_Witness ==
    \E i \in DOMAIN posts : \E r \in Reqs :
        /\ posts[i].status = "published"
        /\ posts[i].title = GenTitle
        /\ jhead[i] = <<"A">>
        /\ posts[i].headline_hash = <<"a">>
        /\ jpc[i] = "exited"
        /\ rhead[r] = <<"A">>
        /\ resp[r].code = 200
        /\ resp[r].status = "duplicate"

\* requests whose placeholder is inserted and whose 202 is not yet returned
Answering == {r \in Reqs : rpc[r] \in {"spawn", "respond"}}

\* C18: the pipeline never inserts a row.  The set of rows grows only by the
\* endpoint's insert of a placeholder, one row per insert; every 202 carries
\* the id of a row of the store that no earlier 202 carried; and the rows of
\* the store are the accepted ids plus the placeholders whose 202 is still
\* on its way, so that with no response pending there are as many rows as
\* accepted responses
C18_RowsAreAcceptedJobs ==
    [][/\ DOMAIN posts' # DOMAIN posts =>
              \E r \in Reqs :
                  /\ rpc[r] = "save" /\ rpc'[r] = "spawn"
                  /\ Val(rpost'[r]) \notin DOMAIN posts
                  /\ DOMAIN posts' = DOMAIN posts \cup {Val(rpost'[r])}
                  /\ jpc' = jpc
       /\ \A r \in Reqs :
              (rpc[r] = "respond" /\ rpc'[r] = "done") =>
                  /\ resp'[r].code = 202
                  /\ Val(resp'[r].post_id) \in DOMAIN posts
                  /\ Val(resp'[r].post_id) \notin accepted
       /\ accepted' \subseteq DOMAIN posts'
       /\ DOMAIN posts' \ accepted' = {Val(rpost'[r]) : r \in Answering'}
       /\ Answering' = {} =>
              Cardinality(DOMAIN posts') = Cardinality(accepted')
      ]_vars

\* two jobs were accepted, one published and one rejected under the
\* generated title, both threads have ended, and the store holds exactly
\* the two accepted rows
C18_Witness ==
    /\ accepted = {1, 2}
    /\ DOMAIN posts = {1, 2}
    /\ Answering = {}
    /\ \A i \in {1, 2} : jpc[i] = "exited"
    /\ \E i, j \in {1, 2} : /\ posts[i].status = "published"
                            /\ posts[j].status = "rejected"
                            /\ posts[j].title = GenTitle

\* C19: a row's status changes only from processing to published or from
\* processing to rejected, hence at most once; a published or rejected row
\* keeps its status; and no step removes a row
C19_StatusChangesOnce ==
    [][\A i \in DOMAIN posts :
          /\ i \in DOMAIN posts'
          /\ posts'[i].status # posts[i].status =>
                 /\ posts[i].status = "processing"
                 /\ posts'[i].status \in {"published", "rejected"}
      ]_vars

\* a headline was rejected, submitted again and published: the rejected row
\* is still there and still rejected next to the published one
C19_Witness ==
    \E i, j \in DOMAIN posts :
        /\ posts[i].status = "rejected"
        /\ posts[j].status = "published"
        /\ posts[i].headline_hash = posts[j].headline_hash
        /\ i < j
        /\ jpc[i] = "exited" /\ jpc[j] = "exited"

\* the outcomes of the response table: HTTP code and body status
TableOutcomes ==
    {<<401, "error">>, <<400, "error">>, <<200, "duplicate">>,
     <<503, "busy">>, <<202, "accepted">>}

\* C20: whatever the gate, the store and the store operations do, every
\* answered request got one of the five outcomes of the response table
C20_OnlyTableOutcomes ==
    \A r \in Reqs :
        rpc[r] = "done" => <<resp[r].code, resp[r].status>> \in TableOutcomes

\* the request of thread r carries no token, or one that is not the secret
\* the server has, or the server has no secret
BadToken(r) == rtoken[r] = "" \/ secret = "" \/ rtoken[r] # secret

\* gate, store and jobs are as they were
CoreUntouched ==
    /\ UNCHANGED <<_busy, _current_headline, _busy_since, _lock>>
    /\ gpc' = gpc
    /\ posts' = posts
    /\ jpc' = jpc
    /\ accepted' = accepted

\* C21: a request with a missing or mismatched token, and every request
\* when no secret is configured, is answered 401 with status error at the
\* authentication step: it goes to no later step (no parsing, validation or
\* duplicate check), and gate, store and jobs are unchanged, whatever its
\* body
C21_UnauthorizedStopsFirst ==
    [][\A r \in Reqs :
          (rpc[r] = "auth" /\ rpc'[r] # "auth" /\ BadToken(r)) =>
              /\ rpc'[r] = "done"
              /\ resp'[r].code = 401
              /\ resp'[r].status = "error"
              /\ rhead'[r] = None
              /\ CoreUntouched
      ]_vars

\* a request was answered 401 while a job held the gate and its row was in
\* the store
C21_Witness ==
    \E r \in Reqs :
        /\ rpc[r] = "done"
        /\ resp[r].code = 401
        /\ resp[r].message = <<"Invalid authentication token.">>
        /\ secret = ServerSecret
        /\ _busy
        /\ \E i \in DOMAIN posts : posts[i].status = "processing"

\* field f of the JSON object d is present and a text
IsText(d, f) == f \in DOMAIN d /\ d[f].t = "str"

\* the rules of the schema in the order they are applied, each with the
\* field it is about and whether the JSON object d breaks it
SchemaRules(d) ==
    [k \in 1..5 |->
        [field  |-> REQUIRED_FIELDS[k].field,
         broken |-> \/ REQUIRED_FIELDS[k].field \notin DOMAIN d
                    \/ d[REQUIRED_FIELDS[k].field].t # REQUIRED_FIELDS[k].type]]
    \o
    [k \in 1..4 |->
        LET f == <<"domain", "headline", "content", "timestamp">>[k]
        IN  [field  |-> f,
             broken |-> IsText(d, f) /\ \A i \in DOMAIN d[f].s : d[f].s[i] = " "]]
    \o
    <<[field  |-> "sources",
       broken |-> /\ "sources" \in DOMAIN d /\ d.sources.t = "list"
                  /\ Len(d.sources.l) = 0],
      [field  |-> "sources",
       broken |-> /\ "sources" \in DOMAIN d /\ d.sources.t = "list"
                  /\ \E i \in DOMAIN d.sources.l : d.sources.l[i].t # "str"],
      [field  |-> "timestamp",
       broken |-> /\ IsText(d, "timestamp")
                  /\ ~fromisoformat_ok(ReplaceZ(d.timestamp.s))],
      [field  |-> "headline",
       broken |-> IsText(d, "headline") /\ Len(d.headline.s) > 500],
      [field  |-> "content",
       broken |-> IsText(d, "content") /\ Len(d.content.s) > 50000]>>

BrokenRules(d) == {k \in DOMAIN SchemaRules(d) : SchemaRules(d)[k].broken}

\* the field of the first rule d breaks
FirstOffending(d) ==
    SchemaRules(d)[CHOOSE k \in BrokenRules(d) :
                       \A j \in BrokenRules(d) : k <= j].field

\* C22: an authenticated request whose payload breaks the schema is answered
\* 400 with status error and a message that names the field of the first
\* rule broken; it goes to no later step (no duplicate check, no gate, no
\* job), and gate, store and jobs are unchanged
C22_InvalidPayloadRefused ==
    [][\A r \in Reqs :
          (/\ rpc[r] = "validate" /\ rpc'[r] # "validate"
           /\ rdata[r].data.t = "dict"
           /\ BrokenRules(rdata[r].data.d) # {}) =>
              /\ rpc'[r] = "done"
              /\ resp'[r].code = 400
              /\ resp'[r].status = "error"
              /\ \E i \in DOMAIN resp'[r].message :
                     resp'[r].message[i] = FirstOffending(rdata[r].data.d)
              /\ rhead'[r] = None
              /\ CoreUntouched
      ]_vars

\* a payload with an empty domain and no timestamp was answered 400 naming
\* the timestamp, while a job held the gate and its row was in the store
C22_Witness ==
    \E r \in Reqs :
        /\ rpc[r] = "done"
        /\ resp[r].code = 400
        /\ resp[r].message = <<"Missing required field: '", "timestamp", "'.">>
        /\ _busy
        /\ \E i \in DOMAIN posts : posts[i].status = "processing"

\* C23: an authenticated payload whose domain is a non-empty text outside
\* the allowed set is answered 400 at the validation step and goes no
\* further
C23_UnknownDomainRefused ==
    [][\A r \in Reqs :
          (/\ rpc[r] = "validate" /\ rpc'[r] # "validate"
           /\ rdata[r].data.t = "dict"
           /\ IsText(rdata[r].data.d, "domain")
           /\ Strip(rdata[r].data.d.domain.s) # <<>>
           /\ rdata[r].data.d.domain.s \notin ALLOWED_DOMAINS) =>
              /\ rpc'[r] = "done"
              /\ resp'[r].code = 400
      ]_vars

\* C24: a request that passed authentication, validation and the duplicate
\* check and found the gate free (it is at step 6) inserts a row with a new
\* id and status processing; the row is there, still processing, when the
\* job is dispatched; and the request is answered 202 accepted with that id
C24_AcceptedAfterInsert ==
    [][\A r \in Reqs :
          /\ (rpc[r] = "save" /\ rpc'[r] # "save") =>
                 /\ rpc'[r] = "spawn"
                 /\ Val(rpost'[r]) \notin DOMAIN posts
                 /\ Val(rpost'[r]) \in DOMAIN posts'
                 /\ posts'[Val(rpost'[r])].status = "processing"
          /\ (rpc[r] = "spawn" /\ rpc'[r] # "spawn") =>
                 /\ rpc'[r] = "respond"
                 /\ posts[Val(rpost[r])].status = "processing"
                 /\ jpc[Val(rpost[r])] = "none"
                 /\ jpc'[Val(rpost[r])] = "generate"
          /\ (rpc[r] = "respond" /\ rpc'[r] # "respond") =>
                 /\ rpc'[r] = "done"
                 /\ resp'[r].code = 202
                 /\ resp'[r].status = "accepted"
                 /\ resp'[r].post_id = rpost[r]
                 /\ Val(rpost[r]) \in DOMAIN posts
      ]_vars

BusyAnswer(r) == rpc[r] = "busy" /\ rpc'[r] = "done"

\* C26 as stated: the current_headline of a 503 is the label the gate held
\* when the request's try_acquire failed
C26_BusyNamesHolder ==
    [][\A r \in Reqs :
          BusyAnswer(r) => resp'[r].current_headline = Val(gseen[r])]_vars

\* the job that held the gate under label h has called release
HolderReleased(h) ==
    \E i \in PostIds : jhead[i] = h /\ jpc[i] \in {"releasing", "exited"}

\* C26: the current_headline of a 503 is the label the gate held when the
\* request's try_acquire failed, unless the job holding it has called
\* release since; then it is "unknown" or the headline of another request
C26_BusyNamesHolderUnlessReleased ==
    [][\A r \in Reqs :
          BusyAnswer(r) =>
              \/ resp'[r].current_headline = Val(gseen[r])
              \/ /\ HolderReleased(Val(gseen[r]))
                 /\ \/ resp'[r].current_headline = Unknown
                    \/ \E q \in Reqs \ {r} :
                           resp'[r].current_headline = rhead[q]
      ]_vars

\* a request was answered 503 with "unknown" after the job that had made it
\* fail was over
C26_Witness ==
    \E r \in Reqs :
        /\ rpc[r] = "done"
        /\ resp[r].code = 503
        /\ resp[r].current_headline = Unknown
        /\ ~_busy
        /\ \E i \in PostIds : jpc[i] = "exited"

\* ------------------------------------------------------------ C27 .. C30

\* a step of send_to_webhook that calls requests.post
Submission == hpc = "post" /\ hposts' = hposts + 1

\* C27: for one item the harvester submits the same payload again after each
\* busy response, at most 10 submissions in total; after 10 consecutive busy
\* responses send_to_webhook returns without an 11th submission
C27_AtMostTenSubmissions ==
    [][/\ hposts' <= 10
       /\ (Submission /\ hresp' = 503) => hpc' = "sleep"
       /\ (hpc = "sleep" /\ hposts < 10) =>
              /\ hpc' = "post"
              /\ hpayload' = hpayload
              /\ attempt' = attempt + 1
       /\ (hpc = "sleep" /\ hposts = 10) =>
              /\ hpc' = "returned_false"
              /\ hposts' = hposts]_vars

C27_Witness ==
    /\ hpc = "returned_false"
    /\ hposts = 10
    /\ hresp = 503

\* C28: after the endpoint answered an item with 202 or 200, the fingerprint
\* of its normalised headline is in the seen cache and no item with that
\* normalised headline is submitted again
C28_AnsweredNeverResubmitted ==
    [][/\ \A n \in hanswered' : md5(n) \in _SEEN'
       /\ _SEEN \subseteq _SEEN'
       /\ Submission =>
              _normalise(Val(hpayload).headline) \notin hanswered]_vars

C28_Witness ==
    /\ hpc = "returned_false"
    /\ hposts = 0
    /\ hpayload # None
    /\ Val(hpayload).headline = <<"a", " ">>
    /\ ~_is_stale(Val(hpayload))
    /\ <<"a">> \in hanswered
    /\ md5(<<"a">>) \in _SEEN

\* C29: when a submission fails at the network level (no HTTP response) the
\* item is abandoned and its fingerprint is not in the seen cache, so that a
\* later cycle submits it again
C29_NetworkFailureNotSeen ==
    [][(Submission /\ hresp' = NetworkError) =>
           /\ hpc' = "returned_false"
           /\ Val(fp) \notin _SEEN']_vars

\* C30: when the endpoint answers a submission with 401 or 400 the harvester
\* returns at once: no sleep, no further submission in that call, and one
\* submission in all when it was the answer to the first
C30_AuthOrValidationStops ==
    [][/\ (Submission /\ hresp' \in {401, 400}) =>
              /\ hpc' = "returned_false"
              /\ attempt' = attempt
              /\ (hposts = 0 => hposts' = 1)
       /\ (hpc = "returned_false" /\ hresp \in {401, 400}) =>
              hposts' \in {hposts, 0}]_vars

C30_Witness ==
    /\ hpc = "returned_false"
    /\ hresp \in {401, 400}
    /\ hposts = 1
    /\ attempt = 1

\* ------------------------------------------------------------ C31 .. C37

\* the timestamp of the item in hand is one _is_stale can age: it parses
\* and carries an offset
Readable == Val(hpayload).timestamp.parses /\ Val(hpayload).timestamp.aware

\* the item in hand is more than 24 hours old
TooOld == Readable /\ Val(hpayload).timestamp.age > 24 * 60 * 60

\* C34: the harvester submits no item whose fingerprint is in the seen
\* cache and no item more than 24 hours old; an item whose timestamp cannot
\* be parsed or compared counts as not stale and, when unseen, is submitted
C34_SeenAndStaleSkipped ==
    [][/\ (hpc = "check" /\ hpc' # "check") =>
              IF md5(_normalise(Val(hpayload).headline)) \in _SEEN \/ TooOld
              THEN hpc' = "returned_false" /\ hposts' = 0
              ELSE hpc' = "post" /\ attempt' = 1
       /\ (Submission /\ hposts = 0) =>
              /\ md5(_normalise(Val(hpayload).headline)) \notin _SEEN
              /\ ~TooOld]_vars

C34_Witness ==
    /\ hpc = "returned_true"
    /\ hposts = 1
    /\ ~Readable
    /\ Val(hpayload).timestamp.age > 24 * 60 * 60

\* C37: any HTTP response, 503, 401 and 400 included, puts the item's
\* fingerprint in the seen cache, the cache never loses an entry, and a
\* later call for an item in the cache returns without a submission
C37_AnyResponseMarksSeen ==
    [][/\ (Submission /\ hresp' \in {202, 200, 503, 401, 400, 500}) =>
              md5(_normalise(Val(hpayload).headline)) \in _SEEN'
       /\ _SEEN \subseteq _SEEN'
       /\ (hpc = "check" /\ hpc' # "check" /\ Val(fp) \in _SEEN) =>
              /\ hpc' = "returned_false"
              /\ hposts' = 0
              /\ hresp' = NetworkError]_vars

C37_Witness ==
    /\ hpc = "returned_false"
    /\ hposts = 0
    /\ Val(hpayload).timestamp.age = 0
    /\ Readable
    /\ Val(fp) \in _SEEN
    /\ _normalise(Val(hpayload).headline) \notin hanswered

\* thread t takes a step inside status_dict
StatusDictStep(t) == gpc[t] \in {"status_dict", "sd_read"} /\ gpc'[t] # gpc[t]

\* C35: status_dict never changes the gate state, and every snapshot it
\* returns, also among concurrent try_acquire and release calls, is
\* consistent: ready is not busy; a busy snapshot carries the label and the
\* instant of the try_acquire that holds the gate; a snapshot that is not
\* busy carries no label, no instant and no elapsed time
C35_StatusSnapshotConsistent ==
    [][\A t \in GateThreads : StatusDictStep(t) =>
          /\ _busy' = _busy
          /\ _current_headline' = _current_headline
          /\ _busy_since' = _busy_since
          /\ gpc'[t] = "ret_status_dict" =>
                 LET snap == gret'[t]
                 IN  /\ snap.ready = ~snap.busy
                     /\ snap.busy =>
                            /\ gheld # None
                            /\ snap.current_headline = Some(Val(gheld).headline)
                            /\ snap.busy_since = Some(Val(gheld).since)
                     /\ ~snap.busy =>
                            /\ gheld = None
                            /\ snap.current_headline = None
                            /\ snap.busy_since = None
                            /\ snap.elapsed_seconds = None]_vars

\* one thread got a busy snapshot while another is waiting for the lock
\* inside try_acquire, and a release has freed the gate before
C35_Witness ==
    \E t \in GateThreads : \E u \in GateThreads \ {t} :
        /\ gpc[t] = "ret_status_dict"
        /\ gret[t].busy
        /\ gret[t].current_headline = Some(<<"B">>)
        /\ gret[t].elapsed_seconds = Some(1)
        /\ gpc[u] = "try_acquire"

\* C36: whenever the gate is not busy no Post is in status processing, and
\* at most one Post is in processing at any time
C36_ProcessingOnlyWhileBusy ==
    /\ ~_busy => Processing(posts) = {}
    /\ Cardinality(Processing(posts)) <= 1

\* the blocked categories of the SafetyFilter
Categories == {_ALL_PATTERNS[k][1] : k \in DOMAIN _ALL_PATTERNS}

\* the text fields of a draft: title, summary, content, why_this_matters and
\* each key point
DraftTexts(g) ==
    {g.title, g.summary, Get(g, "content", <<>>), g.why_this_matters}
        \cup (IF g.key_points.t = "list"
              THEN {g.key_points.l[k] : k \in DOMAIN g.key_points.l}
              ELSE {})

\* the blocked categories a draft matches in one of its text fields
Matched(g) ==
    {cat \in Categories :
        \E k \in DOMAIN _ALL_PATTERNS : \E text \in DraftTexts(g) :
            /\ _ALL_PATTERNS[k][1] = cat
            /\ Search(_ALL_PATTERNS[k][2], text)}

\* the job of post i has a draft and its thread has not ended
HasDraft(i) == jpc[i] \notin {"none", "generate", "exited"} /\ jgen[i] # None

\* run_agent_pipeline of job i is over
PipelineOver(i) == jpc[i] \in {"finally", "releasing"}

\* C31: a draft that matches a blocked category ends the job as rejected:
\* the placeholder is never published, no new_post is emitted for it, and
\* when run_agent_pipeline is over the row is rejected and the result is a
\* rejection whose message names a matched category
C31_BlockedDraftRejected ==
    \A i \in PostIds :
        (HasDraft(i) /\ Matched(jgen[i]) # {}) =>
            /\ posts[i].status # "published"
            /\ i \notin emitted
            /\ PipelineOver(i) =>
                   /\ posts[i].status = "rejected"
                   /\ jres[i] # None
                   /\ Val(jres[i]).status = "rejected"
                   /\ \E cat \in Matched(jgen[i]) :
                          \E k \in DOMAIN Val(jres[i]).message :
                              Val(jres[i]).message[k] = cat

\* the broadcast of job i raised in this step
BroadcastRaised(i) ==
    jpc[i] = "broadcast" /\ jpc'[i] # "broadcast" /\ i \notin emitted'

\* the last line job i logged is the broadcast failure
BroadcastFailed(i) == jlog[i] = Some("warning: WebSocket broadcast failed")

\* C32: when the broadcast raises, the Post is published in the store, the
\* orchestrator returns a published result, and the job goes on to call
\* release, which frees the gate
C32_BroadcastFailureAbsorbed ==
    [][\A i \in PostIds :
          /\ BroadcastRaised(i) =>
                 /\ posts'[i].status = "published"
                 /\ jres'[i] # None
                 /\ Val(jres'[i]).status = "published"
                 /\ jpc'[i] = "finally"
          /\ (BroadcastFailed(i) /\ jpc[i] = "finally" /\ jpc'[i] # jpc[i]) =>
                 /\ jpc'[i] = "releasing"
                 /\ gpc'[JobThread(i)] = "release"
          /\ (BroadcastFailed(i) /\ jpc[i] = "releasing"
                                 /\ jpc'[i] = "exited") =>
                 /\ glog[JobThread(i)] = Some("info: READY")
                 /\ posts'[i].status = "published"]_vars

C32_Witness ==
    \E i \in PostIds :
        /\ BroadcastFailed(i)
        /\ jpc[i] = "exited"
        /\ ~_busy
        /\ posts[i].status = "published"
        /\ i \notin emitted

\* job i takes the generate step
GenerateStep(i) == jpc[i] = "generate" /\ jpc'[i] # "generate"

\* the generator logged that Ollama was unreachable, timed out or answered
\* something it could not use
GeneratorFailed(i) ==
    jlog'[i] \in {Some("error: Ollama not reachable"),
                  Some("error: Ollama request timed out"),
                  Some("warning: Could not parse JSON response"),
                  Some("error: Unexpected error")}

====
